---- MODULE Spec2Model ----
(***************************************************************************)
(* State-machine model of the google-apps-script-mcp server components:    *)
(* the Authenticator (GoogleAuth), the Script API Client (GASApiService),  *)
(* the Encryption Helper (SecurityManager), the Properties Manager and the *)
(* Tool Dispatcher (GoogleAppsScriptMCPServer).                            *)
(*                                                                         *)
(* The remote Apps Script project is the environment: a file collection    *)
(* that stores what updateContent writes, a script-property store, and a   *)
(* run endpoint that executes the named function of the project.  Every    *)
(* remote call may fail in transport; the choice is an input of the action.*)
(***************************************************************************)
EXTENDS Integers, Sequences, FiniteSets, TLC

VARIABLES
  auth,           \* GoogleAuth instances: [auth, credentials, isAuthenticatedFlag]
  authedSince,    \* history: authenticate() succeeded since construction / last reset()
  authEvent,      \* history: the last thing that happened to each instance
  lastCall,       \* history: the last tool call the Dispatcher handled
  files,          \* remote: the project's ordered file collection
  props,          \* remote: the project's script properties
  encryptionKey,  \* SecurityManager.encryptionKey of the running process
  now,            \* the wall clock read by Date.now()
  backup,         \* the Backup Snapshot the caller holds
  cipher,         \* one encrypt / decrypt round of the SecurityManager
  lastOp,         \* history: the last component operation and its outcome
  calls,          \* two callers of GASApiService, each between its fetch of the
                  \* file collection and its write of it
  disk,           \* the CLI configuration files of the project directory
  lastCli,        \* history: the last CLI Integration Layer operation
  lastAuth,       \* history: the last authenticate() call
  lastMask        \* history: the last secret masked for display

vars == <<auth, authedSince, authEvent, lastCall, files, props, encryptionKey,
          now, backup, cipher, lastOp, calls, disk, lastCli, lastAuth,
          lastMask>>

(***************************************************************************)
(* Bounds of the model                                                     *)
(***************************************************************************)
MaxFiles == 2
MaxClock == 1

(***************************************************************************)
(* Authenticator: src/src/auth/google-auth.js                              *)
(***************************************************************************)
\* The two GoogleAuth objects a server process holds: the Dispatcher's
\* this.googleAuth and the one GASApiService holds in this.googleAuth.
Instances == {"dispatcher", "service"}

\* process.env as authenticate() reads it: which variables are set.
Envs == [serviceAccountKey : BOOLEAN, credentialsPath : BOOLEAN]

GoogleAuthNew == [auth |-> "null", credentials |-> "null", isAuthenticatedFlag |-> FALSE]

isAuthenticated(a) == a.isAuthenticatedFlag /\ a.auth # "null"

\* A variant of the strategy selection that looks at the credentials path
\* first.
authStrategy_OAuthFirst(e) ==
  IF e.credentialsPath THEN "oauth2"
  ELSE IF e.serviceAccountKey THEN "serviceAccount"
  ELSE "default"

\* The branch authenticate() takes: authenticateWithServiceAccount,
\* authenticateWithOAuth or authenticateWithDefault.
authStrategy(e) ==
  IF e.serviceAccountKey THEN "serviceAccount"
  ELSE IF e.credentialsPath THEN "oauth2"
  ELSE "default"

\* detectAuthMethod() of utils/validation.js
detectAuthMethod(e) ==
  IF e.serviceAccountKey
  THEN [method |-> "service_account", recommended |-> TRUE]
  ELSE IF e.credentialsPath
  THEN [method |-> "oauth", recommended |-> TRUE]
  ELSE [method |-> "default", recommended |-> FALSE]

\* One authenticate() call: the environment it read and the strategies it
\* attempted, in order (the if / else-if / else calls one).
NoAuthCall == [called |-> FALSE,
               env |-> [serviceAccountKey |-> FALSE, credentialsPath |-> FALSE],
               attempted |-> <<>>]
AuthCall(e) == [called |-> TRUE, env |-> e, attempted |-> <<authStrategy(e)>>]

\* A variant of authenticate that sets the flag even when the strategy threw.
authenticate_IgnoresFailure(a, e, ok) ==
  [a EXCEPT !.auth = authStrategy(e), !.isAuthenticatedFlag = TRUE]

\* authenticate(): the selected strategy either throws before it assigns
\* anything (ok = FALSE) or sets this.auth; the flag is set after it returns.
authenticate(a, e, ok) ==
  IF ~ok THEN a
  ELSE IF authStrategy(e) = "serviceAccount"
       THEN [auth |-> "serviceAccount", credentials |-> "keyData", isAuthenticatedFlag |-> TRUE]
       ELSE [a EXCEPT !.auth = authStrategy(e), !.isAuthenticatedFlag = TRUE]

getScriptApi(a) ==
  IF ~isAuthenticated(a)
  THEN [threw |-> TRUE, error |-> "NotAuthenticated", client |-> "none"]
  ELSE [threw |-> FALSE, error |-> "none", client |-> "script"]

getDriveApi(a) ==
  IF ~isAuthenticated(a)
  THEN [threw |-> TRUE, error |-> "NotAuthenticated", client |-> "none"]
  ELSE [threw |-> FALSE, error |-> "none", client |-> "drive"]

\* A variant of reset that keeps the credentials it holds.
reset_KeepsCredentials(a) == [a EXCEPT !.auth = "null", !.isAuthenticatedFlag = FALSE]

\* GoogleAuth.reset
reset(a) == [auth |-> "null", credentials |-> "null", isAuthenticatedFlag |-> FALSE]

(***************************************************************************)
(* Remote project content and the Script API Client:                       *)
(* src/src/services/gas-api.js                                             *)
(***************************************************************************)
\* Texts (JS strings) that travel to and from the property store.  A text is
\* a plain string, or the JSON text of an Encrypted Envelope; Null is the
\* JS null the remote returns for a missing property.
NoData == [none |-> TRUE]
Null == [t |-> "null"]
Plain(s) == [t |-> "plain", s |-> s]
Envelope(d, ts) == [t |-> "env", data |-> d, ts |-> ts]

\* File names: the names callers give, and the temp_<operation>_<Date.now()>
\* names the Properties Manager builds.
UserName(id) == [kind |-> "user", id |-> id, ts |-> 0]
FileNames == {UserName("Code"), UserName("util")}
Sources == {"s1", "s2"}
UserSource(id) == [fn |-> "user", key |-> id, value |-> Null]

\* The value of a one-element set: Only({e(r) : r \in {x}}) is e(x) with x
\* computed once.
Only(S) == CHOOSE v \in S : TRUE

\* How a remote call of one file-level operation goes.
NetOutcomes == {"ok", "fetchFail", "writeFail"}

\* GASApiService.getProject: scriptApi.projects.getContent
getProject(fs, a, net) ==
  IF getScriptApi(a).threw
  THEN [threw |-> TRUE, error |-> "NotAuthenticated", files |-> <<>>]
  ELSE IF net = "fetchFail"
  THEN [threw |-> TRUE, error |-> "FetchFailed", files |-> <<>>]
  ELSE [threw |-> FALSE, error |-> "none", files |-> fs]

\* A variant of updateProject that keeps the remote files the written
\* collection does not name.
updateProject_KeepsRemote(fs, content, a, net) ==
  IF getScriptApi(a).threw
  THEN [threw |-> TRUE, error |-> "NotAuthenticated", files |-> fs, issued |-> FALSE]
  ELSE IF net = "writeFail"
  THEN [threw |-> TRUE, error |-> "WriteFailed", files |-> fs, issued |-> TRUE]
  ELSE [threw |-> FALSE, error |-> "none", issued |-> TRUE,
        files |-> content \o SelectSeq(fs, LAMBDA f :
                     \A i \in 1..Len(content) : content[i].name # f.name)]

\* GASApiService.updateProject: scriptApi.projects.updateContent replaces
\* the remote collection by content.files.
updateProject(fs, content, a, net) ==
  IF getScriptApi(a).threw
  THEN [threw |-> TRUE, error |-> "NotAuthenticated", files |-> fs, issued |-> FALSE]
  ELSE IF net = "writeFail"
  THEN [threw |-> TRUE, error |-> "WriteFailed", files |-> fs, issued |-> TRUE]
  ELSE [threw |-> FALSE, error |-> "none", files |-> content, issued |-> TRUE]

IndexOfName(fs, name) ==
  IF \E i \in 1..Len(fs) : fs[i].name = name
  THEN CHOOSE i \in 1..Len(fs) :
         fs[i].name = name /\ \A j \in 1..(i - 1) : fs[j].name # name
  ELSE 0

FilterOut(fs, name) == SelectSeq(fs, LAMBDA f : f.name # name)

\* GASApiService.createFile: fetch, append, write back.
createFile(fs, name, type, source, a, net) ==
  LET project == getProject(fs, a, net) IN
  IF project.threw
  THEN [threw |-> TRUE, error |-> project.error, files |-> fs, issued |-> FALSE]
  ELSE LET newFile == [name |-> name, type |-> type, source |-> source]
           updatedFiles == Append(project.files, newFile)
           u == updateProject(fs, updatedFiles, a, net)
       IN [threw |-> u.threw, error |-> u.error, files |-> u.files, issued |-> u.issued]

\* A variant of updateFile that appends a file instead of replacing a source.
updateFile_Append(fs, fileName, source, a, net) ==
  LET project == getProject(fs, a, net) IN
  IF project.threw
  THEN [threw |-> TRUE, error |-> project.error, files |-> fs, issued |-> FALSE]
  ELSE LET u == updateProject(fs,
                  Append(project.files,
                         [name |-> fileName, type |-> "SERVER_JS", source |-> source]),
                  a, net)
       IN [threw |-> u.threw, error |-> u.error, files |-> u.files, issued |-> u.issued]

\* GASApiService.updateFile: fetch, findIndex by name, replace the source of
\* the file found, write the whole collection back.
updateFile(fs, fileName, source, a, net) ==
  LET project == getProject(fs, a, net) IN
  IF project.threw
  THEN [threw |-> TRUE, error |-> project.error, files |-> fs, issued |-> FALSE]
  ELSE LET fileIndex == IndexOfName(project.files, fileName) IN
       IF fileIndex = 0
       THEN [threw |-> TRUE, error |-> "FileNotFound", files |-> fs, issued |-> FALSE]
       ELSE LET u == updateProject(fs,
                       [project.files EXCEPT ![fileIndex].source = source], a, net)
            IN [threw |-> u.threw, error |-> u.error, files |-> u.files,
                issued |-> u.issued]

\* GASApiService.deleteFile: fetch, filter out every file of that name,
\* fail when nothing was filtered, write back.
deleteFile(fs, fileName, a, net) ==
  LET project == getProject(fs, a, net) IN
  IF project.threw
  THEN [threw |-> TRUE, error |-> project.error, files |-> fs, issued |-> FALSE]
  ELSE LET updatedFiles == FilterOut(project.files, fileName) IN
       IF Len(updatedFiles) = Len(project.files)
       THEN [threw |-> TRUE, error |-> "FileNotFound", files |-> fs, issued |-> FALSE]
       ELSE LET u == updateProject(fs, updatedFiles, a, net)
            IN [threw |-> u.threw, error |-> u.error, files |-> u.files,
                issued |-> u.issued]

\* The manifest file 'appsscript' and its source: text that JSON.parse
\* rejects, or an object whose dependencies.libraries is missing or a list
\* of {userSymbol, libraryId, version}.
ManifestName == UserName("appsscript")
LibraryIds == {"L1", "L2"}
Versions == {"1", "2"}
MaxLibraries == 2
ManifestSource(wellFormed, hasLibraries, libraries) ==
  [fn |-> "manifest", wellFormed |-> wellFormed, hasLibraries |-> hasLibraries,
   libraries |-> libraries]
Malformed == ManifestSource(FALSE, FALSE, <<>>)
ManifestFile(source) == [name |-> ManifestName, type |-> "JSON", source |-> source]

\* GASApiService.listLibraries
listLibraries(fs, a, net) ==
  Only({ IF project.threw
         THEN [threw |-> TRUE, error |-> project.error, issued |-> FALSE,
               libraries |-> <<>>, files |-> fs]
         ELSE Only({ IF i = 0
                     THEN [threw |-> FALSE, error |-> "none", issued |-> FALSE,
                           libraries |-> <<>>, files |-> fs]
                     ELSE IF ~project.files[i].source.wellFormed
                     THEN [threw |-> TRUE, error |-> "SyntaxError", issued |-> FALSE,
                           libraries |-> <<>>, files |-> fs]
                     ELSE [threw |-> FALSE, error |-> "none", issued |-> FALSE,
                           libraries |-> project.files[i].source.libraries, files |-> fs]
                     : i \in {IndexOfName(project.files, ManifestName)} })
         : project \in {getProject(fs, a, net)} })

\* The common shape of addLibrary, removeLibrary and updateLibrary: fetch,
\* find the manifest, parse it, change the list, updateFile the manifest.
\* change(manifest) gives [threw, error, libraries].
libraryUpdate(fs, a, net, change(_)) ==
  Only({ IF project.threw
         THEN [threw |-> TRUE, error |-> project.error, issued |-> FALSE,
               libraries |-> <<>>, files |-> fs]
         ELSE Only({ IF i = 0
                     THEN [threw |-> TRUE, error |-> "ManifestNotFound", issued |-> FALSE,
                           libraries |-> <<>>, files |-> fs]
                     ELSE IF ~project.files[i].source.wellFormed
                     THEN [threw |-> TRUE, error |-> "SyntaxError", issued |-> FALSE,
                           libraries |-> <<>>, files |-> fs]
                     ELSE Only({ IF c.threw
                                 THEN [threw |-> TRUE, error |-> c.error, issued |-> FALSE,
                                       libraries |-> <<>>, files |-> fs]
                                 ELSE Only({ [threw |-> u.threw, error |-> u.error,
                                              issued |-> u.issued, libraries |-> c.libraries,
                                              files |-> u.files]
                                             : u \in {updateFile(fs, ManifestName,
                                                        ManifestSource(TRUE, TRUE, c.libraries),
                                                        a, net)} })
                                 : c \in {change(project.files[i].source)} })
                     : i \in {IndexOfName(project.files, ManifestName)} })
         : project \in {getProject(fs, a, net)} })

\* GASApiService.addLibrary: push onto dependencies.libraries, created
\* when missing.
addLibrary(fs, libraryId, version, a, net) ==
  libraryUpdate(fs, a, net,
    LAMBDA m : [threw |-> FALSE, error |-> "none",
                libraries |-> Append(m.libraries,
                                     [libraryId |-> libraryId, version |-> version])])

\* GASApiService.removeLibrary: filter out the library id; fails when the
\* list is missing or nothing was filtered.
removeLibrary(fs, libraryId, a, net) ==
  libraryUpdate(fs, a, net,
    LAMBDA m :
      IF ~m.hasLibraries
      THEN [threw |-> TRUE, error |-> "NoLibraries", libraries |-> <<>>]
      ELSE IF \A j \in 1..Len(m.libraries) : m.libraries[j].libraryId # libraryId
      THEN [threw |-> TRUE, error |-> "LibraryNotFound", libraries |-> <<>>]
      ELSE [threw |-> FALSE, error |-> "none",
            libraries |-> SelectSeq(m.libraries, LAMBDA l : l.libraryId # libraryId)])

\* GASApiService.updateLibrary: set the version of the first library of
\* that id.
updateLibrary(fs, libraryId, newVersion, a, net) ==
  libraryUpdate(fs, a, net,
    LAMBDA m :
      IF ~m.hasLibraries
      THEN [threw |-> TRUE, error |-> "NoLibraries", libraries |-> <<>>]
      ELSE IF \A j \in 1..Len(m.libraries) : m.libraries[j].libraryId # libraryId
      THEN [threw |-> TRUE, error |-> "LibraryNotFound", libraries |-> <<>>]
      ELSE [threw |-> FALSE, error |-> "none",
            libraries |->
              [m.libraries EXCEPT
                 ![CHOOSE j \in 1..Len(m.libraries) :
                     /\ m.libraries[j].libraryId = libraryId
                     /\ \A k \in 1..(j - 1) : m.libraries[k].libraryId # libraryId
                  ].version = newVersion]])

\* GASApiService.getFile: fetch and find by name.
getFile(fs, fileName, a, net) ==
  LET project == getProject(fs, a, net) IN
  IF project.threw
  THEN [threw |-> TRUE, error |-> project.error, files |-> fs, issued |-> FALSE]
  ELSE IF IndexOfName(project.files, fileName) = 0
  THEN [threw |-> TRUE, error |-> "FileNotFound", files |-> fs, issued |-> FALSE]
  ELSE [threw |-> FALSE, error |-> "none", files |-> fs, issued |-> FALSE]

\* GASApiService.listProjects: driveApi.files.list
listProjects(fs, a, net) ==
  IF getDriveApi(a).threw
  THEN [threw |-> TRUE, error |-> "NotAuthenticated", files |-> fs, issued |-> FALSE]
  ELSE IF net = "fetchFail"
  THEN [threw |-> TRUE, error |-> "FetchFailed", files |-> fs, issued |-> FALSE]
  ELSE [threw |-> FALSE, error |-> "none", files |-> fs, issued |-> FALSE]

(***************************************************************************)
(* History records                                                         *)
(***************************************************************************)
NoName == [kind |-> "none", id |-> "", ts |-> 0]
NoSource == [fn |-> "none", key |-> "", value |-> Null]
PropertyKeys == {"API_KEY", "note"}
NoProps == [k \in PropertyKeys |-> Null]
NoExec == [error |-> FALSE, response |-> FALSE, result |-> Null, all |-> NoProps]

\* op: the operation; name/source: the file arguments; key/value/flag: the
\* property arguments (for a get, value is the raw text stored under key and
\* flag is decrypt; for a restore, flag is verifyChecksum); pre: the file
\* collection before it; preProps: the property store before a backup or a
\* restore; encKey: the encryption key in use; tampered: whether a restored
\* backup's mapping differed from the mapping its checksum was computed
\* over; threw/error: how it ended; issued: whether it sent a write of the
\* file collection; writes: how many setSecureProperty calls it made; ret:
\* the value it returned; exec: what executeFunction returned to it; step:
\* the step of executePropertiesOperation that threw (0: none); temp: the
\* temporary file name it used; postProps: the property store after a
\* restore; fresh: whether the restored backup was taken of the property
\* store as it is, under the key in use; count: its propertyCount.
NoOp == [op |-> "none", name |-> NoName, source |-> NoSource, key |-> "",
         value |-> Null, flag |-> FALSE, pre |-> <<>>, preProps |-> NoProps,
         encKey |-> "", tampered |-> FALSE,
         threw |-> FALSE, error |-> "none", issued |-> FALSE, writes |-> 0,
         ret |-> Null, exec |-> NoExec, step |-> 0, temp |-> NoName,
         libraries |-> <<>>, outcome |-> "none", authed |-> FALSE,
         audit |-> [totalProperties |-> 0, encryptedProperties |-> 0,
                    plaintextProperties |-> 0, suspiciousKeys |-> {}],
         postProps |-> NoProps, fresh |-> FALSE, count |-> 0]

\* The record of a file-level operation that ended as r.
FileOp(op, name, source, pre, r) ==
  [NoOp EXCEPT !.op = op, !.name = name, !.source = source, !.pre = pre,
               !.threw = r.threw, !.error = r.error, !.issued = r.issued]

\* The record of a property operation that ended as r.
PropOp(op, key, value, flag, pre, encKey, r) ==
  [NoOp EXCEPT !.op = op, !.key = key, !.value = value, !.flag = flag,
               !.pre = pre, !.encKey = encKey,
               !.threw = r.threw, !.error = r.error, !.issued = r.issued,
               !.ret = r.ret, !.exec = r.exec, !.step = r.step, !.temp = r.temp]

\* A caller of a file-level mutation: idle, fetched (it holds the collection
\* it read in snap and the collection it is about to write in content), or
\* done.  first: its write landed while the other caller had fetched and
\* not yet written; last: its write landed after such a write of the other.
NoCaller == [phase |-> "idle", op |-> "none", name |-> NoName, source |-> NoSource,
             snap |-> <<>>, content |-> <<>>, threw |-> FALSE, error |-> "none",
             first |-> FALSE, last |-> FALSE, ran |-> NoSource, ret |-> Null]

\* tool: the tool name; gate: how ensureAuthenticated() ended (skipped for
\* a CLI tool name); authCalled: the call invoked authenticate(); invoked:
\* the component operation was invoked; authedAtOp: what the Dispatcher's
\* Authenticator reported when it was; opFailed: the component operation
\* raised an error; outcome: what left the Dispatcher, a content result or
\* McpError(InternalError, "Tool execution failed: ..."); threw / error: the
\* error that reached the handler's catch.
NoCall == [tool |-> "none", gate |-> "none", threw |-> FALSE, error |-> "none",
           authCalled |-> FALSE, invoked |-> FALSE, authedAtOp |-> FALSE,
           opFailed |-> FALSE, outcome |-> "none",
           method |-> "none", defined |-> FALSE, shapeOk |-> FALSE]

(***************************************************************************)
(* Encryption Helper: SecurityManager, src/unnamed/part_000                *)
(*                                                                         *)
(* aes-256-gcm through crypto.createCipher(algorithm, password): the cipher*)
(* key and the IV in effect are both derived from the password, so the     *)
(* ciphertext is a function of (password, plaintext); the authentication   *)
(* tag is a function of (password, ciphertext, AAD).  Ciphertexts and tags *)
(* are symbolic terms: equal exactly when built from equal parts.          *)
(***************************************************************************)
IVs == {"iv1", "iv2"}

\* cipher.update/final: the ciphertext of text under the key.
Ciphertext(key, text) == [k |-> key, p |-> text]

\* cipher.getAuthTag(): the tag the key yields over a ciphertext.
GCMTag(key, ct) == [k |-> key, ck |-> ct.k, cp |-> ct.p, flip |-> 0]

\* The IV in effect in the cipher crypto.createCipher(algorithm, key)
\* builds: createCipher takes no IV and derives key and IV from its second
\* argument alone.
CipherIV(key) == IF key = "K1" THEN "ivFromK1" ELSE "ivFromK2"

\* SecurityManager.encrypt: iv is the crypto.randomBytes(12) it draws.
encrypt(text, key, iv) ==
  [encrypted |-> Ciphertext(key, text),
   iv |-> iv,
   authTag |-> GCMTag(key, Ciphertext(key, text))]

\* A variant of decrypt that never verifies the authentication tag.
decrypt_NoTagCheck(data, key) ==
  [threw |-> FALSE,
   text |-> IF data.encrypted.k = key THEN data.encrypted.p ELSE Plain("garbage")]

\* SecurityManager.decrypt: decipher.final() throws unless the tag set by
\* setAuthTag is the tag this key yields over the ciphertext.
decrypt(data, key) ==
  IF data.authTag = GCMTag(key, data.encrypted)
  THEN [threw |-> FALSE,
        text |-> IF data.encrypted.k = key THEN data.encrypted.p ELSE Plain("garbage")]
  ELSE [threw |-> TRUE, text |-> Null]

\* Secrets as character sequences, up to MaxSecretLen characters.
MaxSecretLen == 9
MaxNesting == 2
Chars == {"a", "b"}
Secrets == UNION {[1..n -> Chars] : n \in 0..MaxSecretLen}

\* SecurityManager.maskApiKey: '***' for an empty or short key, otherwise
\* the first four characters, '***', the last four characters.
maskApiKey(apiKey) ==
  IF Len(apiKey) = 0 \/ Len(apiKey) < 8
  THEN [prefix |-> <<>>, suffix |-> <<>>]
  ELSE [prefix |-> SubSeq(apiKey, 1, 4),
        suffix |-> SubSeq(apiKey, Len(apiKey) - 4 + 1, Len(apiKey))]

NoMask == [masked |-> FALSE, secret |-> <<>>, shown |-> [prefix |-> <<>>, suffix |-> <<>>]]

(***************************************************************************)
(* JSON and JS value helpers                                               *)
(***************************************************************************)
\* Plain strings that are JSON texts; every other plain string makes
\* JSON.parse throw (the empty string included).
JSONLiterals == {"123"}

\* JSON.parse(text), as far as the callers look: whether it threw, and the
\* _encrypted and data members of the value.
JSONparse(text) ==
  IF text.t = "env"
  THEN [threw |-> FALSE, _encrypted |-> TRUE, hasData |-> TRUE, data |-> text.data]
  ELSE IF text.t = "plain" /\ text.s \in JSONLiterals
  THEN [threw |-> FALSE, _encrypted |-> FALSE, hasData |-> FALSE, data |-> NoData]
  ELSE [threw |-> TRUE, _encrypted |-> FALSE, hasData |-> FALSE, data |-> NoData]

\* JS falsiness of a returned string-or-null.
Falsy(v) == v.t = "null" \/ (v.t = "plain" /\ v.s = "")

(***************************************************************************)
(* The remote run endpoint and GASApiService.executeFunction               *)
(***************************************************************************)
ExecOutcomes == {"ok", "error", "throw"}

\* The definition of functionName the script runtime ends up with: files
\* are loaded in collection order, so the last definition stands.
HandlerIndex(fs, functionName) ==
  IF \E i \in 1..Len(fs) : fs[i].source.fn = functionName
  THEN CHOOSE i \in 1..Len(fs) :
         /\ fs[i].source.fn = functionName
         /\ \A j \in (i + 1)..Len(fs) : fs[j].source.fn # functionName
  ELSE 0

\* What the generated handlers do when the remote runs them
\* (generatePropertiesSetCode / GetCode / DeleteCode / GetAllCode).
RunHandler(h, ps) ==
  IF h.fn = "setProperty"
  THEN [props |-> [ps EXCEPT ![h.key] = h.value],
        result |-> Plain("{success:true}"), all |-> NoProps]
  ELSE IF h.fn = "deleteProperty"
  THEN [props |-> [ps EXCEPT ![h.key] = Null],
        result |-> Plain("{success:true}"), all |-> NoProps]
  ELSE IF h.fn = "getProperty"
  THEN [props |-> ps, result |-> ps[h.key], all |-> NoProps]
  ELSE [props |-> ps, result |-> Plain("{properties}"), all |-> ps]

\* A variant of executeFunction that throws on a remote execution error.
executeFunction_ThrowsOnError(fs, ps, functionName, a, outcome) ==
  IF getScriptApi(a).threw
  THEN [threw |-> TRUE, error |-> "NotAuthenticated", props |-> ps, result |-> NoExec]
  ELSE IF outcome = "throw" \/ outcome = "error" \/ HandlerIndex(fs, functionName) = 0
  THEN [threw |-> TRUE, error |-> "ExecuteFailed", props |-> ps, result |-> NoExec]
  ELSE LET run == RunHandler(fs[HandlerIndex(fs, functionName)].source, ps) IN
       [threw |-> FALSE, error |-> "none", props |-> run.props,
        result |-> [error |-> FALSE, response |-> TRUE, result |-> run.result,
                    all |-> run.all]]

\* GASApiService.executeFunction: throws on a transport failure; returns
\* {error, ...} when the remote reports an execution error, and
\* {response, ...} when the function ran.
executeFunction(fs, ps, functionName, a, outcome) ==
  IF getScriptApi(a).threw
  THEN [threw |-> TRUE, error |-> "NotAuthenticated", props |-> ps, result |-> NoExec]
  ELSE IF outcome = "throw"
  THEN [threw |-> TRUE, error |-> "ExecuteFailed", props |-> ps, result |-> NoExec]
  ELSE IF outcome = "error" \/ HandlerIndex(fs, functionName) = 0
  THEN [threw |-> FALSE, error |-> "none", props |-> ps,
        result |-> [error |-> TRUE, response |-> FALSE, result |-> Null, all |-> NoProps]]
  ELSE LET run == RunHandler(fs[HandlerIndex(fs, functionName)].source, ps) IN
       [threw |-> FALSE, error |-> "none", props |-> run.props,
        result |-> [error |-> FALSE, response |-> TRUE, result |-> run.result,
                    all |-> run.all]]

(***************************************************************************)
(* Properties Manager: src/unnamed/part_000                                *)
(***************************************************************************)
Operations == {"setProperty", "getProperty", "deleteProperty", "getAllProperties"}

\* How the remote calls of one property operation go: the createFile, the
\* executeFunction and the deleteFile.
Choices == [c : NetOutcomes, x : ExecOutcomes, d : NetOutcomes]
AllOk == [c |-> "ok", x |-> "ok", d |-> "ok"]

\* `temp_${operation}_${Date.now()}`
tempFileName(operation, t) == [kind |-> "temp", id |-> operation, ts |-> t]

\* PropertiesManager.executePropertiesOperation: create the temporary file,
\* execute the function named after the operation, delete the temporary
\* file; the first step that throws ends the operation.
executePropertiesOperation(fs, ps, operation, gasCode, a, t, ch) ==
  Only({
    IF c.threw
    THEN [threw |-> TRUE, error |-> c.error, step |-> 2, files |-> c.files, props |-> ps,
          exec |-> NoExec, issued |-> c.issued, temp |-> tempFileName(operation, t)]
    ELSE Only({
      IF e.threw
      THEN [threw |-> TRUE, error |-> e.error, step |-> 3, files |-> c.files,
            props |-> ps, exec |-> NoExec, issued |-> TRUE,
            temp |-> tempFileName(operation, t)]
      ELSE Only({
        IF d.threw
        THEN [threw |-> TRUE, error |-> d.error, step |-> 4, files |-> d.files,
              props |-> e.props, exec |-> NoExec, issued |-> TRUE,
              temp |-> tempFileName(operation, t)]
        ELSE [threw |-> FALSE, error |-> "none", step |-> 0, files |-> d.files,
              props |-> e.props, exec |-> e.result, issued |-> TRUE,
              temp |-> tempFileName(operation, t)]
        : d \in {deleteFile(c.files, tempFileName(operation, t), a, ch.d)} })
      : e \in {executeFunction(c.files, ps, operation, a, ch.x)} })
    : c \in {createFile(fs, tempFileName(operation, t), "SERVER_JS", gasCode, a, ch.c)} })

\* PropertiesManager.setSecureProperty.  value is a string; with encrypt it
\* is stored as the JSON text of {_encrypted: true, data, timestamp}.
setSecureProperty(fs, ps, key, value, enc, encKey, iv, a, t, ch) ==
  LET finalValue == IF enc THEN Envelope(encrypt(value, encKey, iv), t) ELSE value
      gasCode == [fn |-> "setProperty", key |-> key, value |-> finalValue]
  IN Only({
       [threw |-> r.threw, error |-> r.error, step |-> r.step, files |-> r.files,
        props |-> r.props, exec |-> r.exec, issued |-> r.issued, temp |-> r.temp,
        ret |-> IF r.threw THEN Null ELSE Plain("{key,encrypted,timestamp}")]
       : r \in {executePropertiesOperation(fs, ps, "setProperty", gasCode, a, t, ch)} })

\* The value getSecureProperty hands back for the raw text it fetched.
DecryptedView(rawValue, encKey) ==
  LET parsed == JSONparse(rawValue) IN
  IF ~parsed.threw /\ parsed._encrypted /\ parsed.hasData
  THEN LET d == decrypt(parsed.data, encKey) IN
       \* decrypt's error is thrown inside the try whose catch treats every
       \* error as "not JSON": the raw text is returned
       IF d.threw THEN rawValue ELSE d.text
  ELSE rawValue

\* PropertiesManager.getSecureProperty
getSecureProperty(fs, ps, key, dec, encKey, a, t, ch) ==
  LET gasCode == [fn |-> "getProperty", key |-> key, value |-> Null] IN
  Only({
    [threw |-> r.threw, error |-> r.error, step |-> r.step, files |-> r.files,
     props |-> r.props, exec |-> r.exec, issued |-> r.issued, temp |-> r.temp,
     ret |-> IF r.threw THEN Null
             ELSE IF ~r.exec.response \/ Falsy(r.exec.result) THEN Null
             ELSE IF ~dec THEN r.exec.result
             ELSE DecryptedView(r.exec.result, encKey)]
    : r \in {executePropertiesOperation(fs, ps, "getProperty", gasCode, a, t, ch)} })

\* PropertiesManager.deleteProperty
deleteProperty(fs, ps, key, a, t, ch) ==
  LET gasCode == [fn |-> "deleteProperty", key |-> key, value |-> Null] IN
  Only({
    [threw |-> r.threw, error |-> r.error, step |-> r.step, files |-> r.files,
     props |-> r.props, exec |-> r.exec, issued |-> r.issued, temp |-> r.temp,
     ret |-> IF r.threw THEN Null ELSE Plain("{deleted,timestamp}")]
    : r \in {executePropertiesOperation(fs, ps, "deleteProperty", gasCode, a, t, ch)} })

\* PropertiesManager.getAllProperties: every stored property, each given
\* back decrypted (as getSecureProperty would) or raw.
getAllProperties(fs, ps, dec, encKey, a, t, ch) ==
  LET gasCode == [fn |-> "getAllProperties", key |-> "", value |-> Null] IN
  Only({
    [threw |-> r.threw, error |-> r.error, step |-> r.step, files |-> r.files,
     props |-> r.props, exec |-> r.exec, issued |-> r.issued, temp |-> r.temp,
     map |-> IF r.threw \/ ~r.exec.response THEN NoProps
             ELSE [k \in PropertyKeys |->
                     IF r.exec.all[k] = Null THEN Null
                     ELSE IF dec THEN DecryptedView(r.exec.all[k], encKey)
                     ELSE r.exec.all[k]]]
    : r \in {executePropertiesOperation(fs, ps, "getAllProperties", gasCode, a, t, ch)} })

\* auditProperties' sensitiveKeywords
sensitiveKeywords == {"api_key", "apikey", "secret", "password", "token", "auth",
                      "credential", "private", "key", "pass", "pwd"}

\* key.toLowerCase() for the property keys, and the keywords that
\* keyLower.includes() finds in a lower-cased key.
toLowerCase(key) == IF key = "API_KEY" THEN "api_key" ELSE key
KeywordsIn(keyLower) == IF keyLower = "api_key" THEN {"api_key", "key"} ELSE {}
isSensitive(key) == \E keyword \in sensitiveKeywords : keyword \in KeywordsIn(toLowerCase(key))

\* PropertiesManager.auditProperties: getAllProperties without decryption,
\* then per property JSON.parse(value); a value that parses counts as
\* encrypted or plaintext by its _encrypted member, a value that does not
\* parse counts as plaintext and has its key checked against the keywords.
auditProperties(fs, ps, encKey, a, t, ch) ==
  Only({
    [threw |-> r.threw, error |-> r.error, step |-> r.step, files |-> r.files,
     props |-> r.props, exec |-> r.exec, issued |-> r.issued, temp |-> r.temp,
     ret |-> Null,
     audit |->
       Only({ [totalProperties |-> Cardinality(present),
               encryptedProperties |->
                 Cardinality({k \in present : /\ ~JSONparse(r.map[k]).threw
                                              /\ JSONparse(r.map[k])._encrypted}),
               plaintextProperties |->
                 Cardinality({k \in present : \/ JSONparse(r.map[k]).threw
                                              \/ ~JSONparse(r.map[k])._encrypted}),
               suspiciousKeys |->
                 {k \in present : JSONparse(r.map[k]).threw /\ isSensitive(k)}]
              : present \in {{k \in PropertyKeys : ~r.threw /\ r.map[k] # Null}} })]
    : r \in {getAllProperties(fs, ps, FALSE, encKey, a, t, ch)} })

\* Object.entries / JSON.stringify walk a mapping's keys in one order.
KeyOrder == <<"API_KEY", "note">>
Entries(m) == SelectSeq(KeyOrder, LAMBDA k : m[k] # Null)

\* JSON.stringify(properties): the text listing each key with its value.
JSONstringify(m) == [i \in 1..Len(Entries(m)) |-> <<Entries(m)[i], m[Entries(m)[i]]>>]

\* SecurityManager.createHash: sha256, taken as collision-free.
createHash(text) == [sha256 |-> text]

NoBackup == [taken |-> FALSE, includeEncrypted |-> FALSE, propertyCount |-> 0,
             properties |-> NoProps, checksum |-> createHash(<<>>),
             sealed |-> NoProps, origin |-> NoProps, encKey |-> ""]

\* PropertiesManager.backupProperties.  sealed remembers the mapping the
\* checksum was computed over, origin the property store it was read from
\* and encKey the encryption key in use.
backupProperties(fs, ps, includeEncrypted, encKey, a, t, ch) ==
  Only({
    [threw |-> g.threw, error |-> g.error, step |-> g.step, files |-> g.files,
     props |-> g.props, exec |-> g.exec, issued |-> g.issued, temp |-> g.temp,
     ret |-> Null,
     backup |-> [taken |-> TRUE, includeEncrypted |-> includeEncrypted,
                 propertyCount |-> Len(Entries(g.map)),
                 properties |-> g.map,
                 checksum |-> createHash(JSONstringify(g.map)),
                 sealed |-> g.map, origin |-> ps, encKey |-> encKey]]
    : g \in {getAllProperties(fs, ps, ~includeEncrypted, encKey, a, t, ch)} })

\* The loop of restoreProperties: one setSecureProperty per entry, in order;
\* the first one that throws ends the restore.
RECURSIVE restoreEntries(_, _, _, _, _, _, _, _, _)
restoreEntries(entries, fs, ps, b, encKey, iv, a, t, chs) ==
  IF entries = <<>>
  THEN [threw |-> FALSE, error |-> "none", files |-> fs, props |-> ps,
        restored |-> 0, writes |-> 0, issued |-> FALSE]
  ELSE Only({
         IF r.threw
         THEN [threw |-> TRUE, error |-> r.error, files |-> r.files, props |-> r.props,
               restored |-> 0, writes |-> 1, issued |-> r.issued]
         ELSE [restoreEntries(Tail(entries), r.files, r.props, b, encKey, iv, a, t, chs)
               EXCEPT !.restored = @ + 1, !.writes = @ + 1, !.issued = TRUE]
         : r \in {setSecureProperty(fs, ps, Head(entries), b.properties[Head(entries)],
                                    ~b.includeEncrypted, encKey, iv, a, t,
                                    chs[Head(entries)])} })

\* A variant of restoreProperties that skips the checksum verification.
restoreProperties_NoVerify(fs, ps, b, verifyChecksum, encKey, iv, a, t, chs) ==
  restoreEntries(Entries(b.properties), fs, ps, b, encKey, iv, a, t, chs)

\* PropertiesManager.restoreProperties
restoreProperties(fs, ps, b, verifyChecksum, encKey, iv, a, t, chs) ==
  IF verifyChecksum /\ createHash(JSONstringify(b.properties)) # b.checksum
  THEN [threw |-> TRUE, error |-> "IntegrityError", files |-> fs, props |-> ps,
        restored |-> 0, writes |-> 0, issued |-> FALSE]
  ELSE restoreEntries(Entries(b.properties), fs, ps, b, encKey, iv, a, t, chs)

(***************************************************************************)
(* CLI Integration Layer: ClaspService of src/src/services/gas-api.js and  *)
(* of src/src/services/clasp-service-es6.js                                *)
(***************************************************************************)
\* this.environments
environments == {"development", "staging", "production"}

\* The environment option of a call: none, two configured names and one
\* name that is not configured.
EnvironmentOptions == {"none", "staging", "production", "qa"}

\* The files of the project directory: .clasp.json (active),
\* .clasp.backup.json (backup) and .clasp.<environment>.json (env); a file
\* is "absent" or holds a configuration.
DiskEnvs == {"staging", "production"}
EnvContent(e) == IF e = "staging" THEN "stagingCfg" ELSE "productionCfg"
InitialDisk == [active |-> "default", backup |-> "absent",
                env |-> [e \in DiskEnvs |-> "absent"]]

\* How the subprocess of one command ends.
SubOutcomes == {"ok", "nonzero", "timeout"}

\* What a command execution hands back: whether it returned a record, and
\* the fields and the success flag of the record.
NoRecord == [returned |-> FALSE, fields |-> {}, success |-> FALSE]

NoCli == [op |-> "none", environment |-> "none", pre |-> InitialDisk,
          post |-> InitialDisk, sub |-> "ok", backupOk |-> FALSE,
          threw |-> FALSE, error |-> "none", spawned |-> 0, record |-> NoRecord,
          variant |-> "none", deploy |-> TRUE, subDeploy |-> "ok",
          deployed |-> FALSE, success |-> FALSE]

\* A variant of switchEnvironment that copies before it looks for the
\* environment file.
switchEnvironment_BackupFirst(d, environment, backupOk, copyOk) ==
  IF environment \notin environments
  THEN [threw |-> TRUE, error |-> "InvalidEnvironment", disk |-> d]
  ELSE [threw |-> TRUE, error |-> "ConfigNotFound",
        disk |-> [d EXCEPT !.backup = d.active]]

\* A variant of switchEnvironment that never writes the backup file.
switchEnvironment_SkipsBackup(d, environment, backupOk, copyOk) ==
  IF environment \notin environments
  THEN [threw |-> TRUE, error |-> "InvalidEnvironment", disk |-> d]
  ELSE IF environment \notin DiskEnvs \/ d.env[environment] = "absent"
  THEN [threw |-> TRUE, error |-> "ConfigNotFound", disk |-> d]
  ELSE IF ~copyOk
  THEN [threw |-> TRUE, error |-> "ConfigNotFound", disk |-> d]
  ELSE [threw |-> FALSE, error |-> "none",
        disk |-> [d EXCEPT !.active = d.env[environment]]]

\* ClaspService.switchEnvironment.  backupOk / copyOk: whether the two
\* fs.copyFile calls go through.
switchEnvironment(d, environment, backupOk, copyOk) ==
  IF environment \notin environments
  THEN [threw |-> TRUE, error |-> "InvalidEnvironment", disk |-> d]
  ELSE IF environment \notin DiskEnvs \/ d.env[environment] = "absent"
  THEN [threw |-> TRUE, error |-> "ConfigNotFound", disk |-> d]
  ELSE LET backedUp == IF backupOk /\ d.active # "absent"
                       THEN [d EXCEPT !.backup = d.active]
                       ELSE d
       IN IF ~copyOk
          THEN [threw |-> TRUE, error |-> "ConfigNotFound", disk |-> backedUp]
          ELSE [threw |-> FALSE, error |-> "none",
                disk |-> [backedUp EXCEPT !.active = d.env[environment]]]

\* ClaspService.executeClaspCommand (gas-api.js): exec with a timeout;
\* rejects on an error, resolves {stdout, stderr, command} otherwise.
executeClaspCommand(sub) ==
  IF sub = "ok"
  THEN [threw |-> FALSE, error |-> "none", spawned |-> 1,
        record |-> [returned |-> TRUE, fields |-> {"stdout", "stderr", "command"},
                    success |-> FALSE]]
  ELSE [threw |-> TRUE, error |-> "CommandFailed", spawned |-> 1, record |-> NoRecord]

\* ClaspService.executeCommand (clasp-service-es6.js): execAsync with a
\* timeout inside a try; the catch returns a record with success: false.
executeCommand(sub) ==
  IF sub = "ok"
  THEN [threw |-> FALSE, error |-> "none", spawned |-> 1,
        record |-> [returned |-> TRUE,
                    fields |-> {"success", "stdout", "stderr", "command"},
                    success |-> TRUE]]
  ELSE [threw |-> FALSE, error |-> "none", spawned |-> 1,
        record |-> [returned |-> TRUE,
                    fields |-> {"success", "error", "stdout", "stderr", "command"},
                    success |-> FALSE]]

\* ClaspService.pullChanges
pullChanges(d, environment, backupOk, copyOk, sub) ==
  LET sw == IF environment # "none"
            THEN switchEnvironment(d, environment, backupOk, copyOk)
            ELSE [threw |-> FALSE, error |-> "none", disk |-> d]
      x == executeClaspCommand(sub)
  IN IF sw.threw
     THEN [threw |-> TRUE, error |-> sw.error, disk |-> sw.disk, spawned |-> 0]
     ELSE [threw |-> x.threw, error |-> x.error, disk |-> sw.disk, spawned |-> 1]

\* A variant of pushAndDeploy that goes on to clasp deploy whatever became of
\* clasp push.
pushAndDeploy_DeploysAfterFailedPush(d, environment, backupOk, copyOk, deploy, sub, subDeploy) ==
  LET sw == IF environment # "none"
            THEN switchEnvironment(d, environment, backupOk, copyOk)
            ELSE [threw |-> FALSE, error |-> "none", disk |-> d]
      dep == executeClaspCommand(subDeploy)
  IN IF sw.threw
     THEN [threw |-> TRUE, error |-> sw.error, disk |-> sw.disk, spawned |-> 0,
           deployed |-> FALSE, success |-> FALSE]
     ELSE IF ~deploy
     THEN [threw |-> FALSE, error |-> "none", disk |-> sw.disk, spawned |-> 1,
           deployed |-> FALSE, success |-> TRUE]
     ELSE [threw |-> dep.threw, error |-> dep.error, disk |-> sw.disk, spawned |-> 2,
           deployed |-> TRUE, success |-> ~dep.threw]

\* ClaspService.pushAndDeploy (gas-api.js): clasp push, then (unless deploy
\* is false) deployProject's clasp deploy; success: true is returned when
\* nothing threw.
pushAndDeploy(d, environment, backupOk, copyOk, deploy, sub, subDeploy) ==
  LET sw == IF environment # "none"
            THEN switchEnvironment(d, environment, backupOk, copyOk)
            ELSE [threw |-> FALSE, error |-> "none", disk |-> d]
      push == executeClaspCommand(sub)
      dep == executeClaspCommand(subDeploy)
  IN IF sw.threw
     THEN [threw |-> TRUE, error |-> sw.error, disk |-> sw.disk, spawned |-> 0,
           deployed |-> FALSE, success |-> FALSE]
     ELSE IF push.threw \/ ~deploy
     THEN [threw |-> push.threw, error |-> push.error, disk |-> sw.disk, spawned |-> 1,
           deployed |-> FALSE, success |-> ~push.threw]
     ELSE [threw |-> dep.threw, error |-> dep.error, disk |-> sw.disk, spawned |-> 2,
           deployed |-> TRUE, success |-> ~dep.threw]

\* ClaspService.pushAndDeploy (clasp-service-es6.js): clasp push; a push
\* record without success is returned as it is; otherwise clasp deploy, and
\* the success of the result is the success of the deploy record.
pushAndDeploy_es6(sub, subDeploy) ==
  LET pushResult == executeCommand(sub).record
      deployResult == executeCommand(subDeploy).record
  IN IF ~pushResult.success
     THEN [threw |-> FALSE, error |-> "none", spawned |-> 1,
           deployed |-> FALSE, success |-> pushResult.success]
     ELSE [threw |-> FALSE, error |-> "none", spawned |-> 2,
           deployed |-> TRUE, success |-> deployResult.success]

Callers == {"A", "B"}
Other(c) == CHOOSE d \in Callers : d # c

(***************************************************************************)
(* Initial state: the objects as their constructors leave them, the remote *)
(* project as Google creates it (one script file, no properties).          *)
(***************************************************************************)
InitialFiles ==
  << [name |-> UserName("Code"), type |-> "SERVER_JS", source |-> UserSource("s1")] >>

EncryptionKeys == {"K1", "K2"}
NoCipher == [phase |-> "idle", text |-> Null, data |-> NoData, encKey |-> "",
             drawn |-> "", usedIV |-> "", prevKey |-> "", prevUsedIV |-> "",
             decKey |-> "", tampered |-> FALSE, out |-> [threw |-> FALSE, text |-> Null]]

Init ==
  /\ auth = [i \in Instances |-> GoogleAuthNew]
  /\ authedSince = [i \in Instances |-> FALSE]
  /\ authEvent = [i \in Instances |-> "constructed"]
  /\ lastCall = NoCall
  /\ files = InitialFiles
  /\ props = NoProps
  /\ encryptionKey = "K1"
  /\ now = 0
  /\ backup = NoBackup
  /\ cipher = NoCipher
  /\ calls = [c \in Callers |-> NoCaller]
  /\ disk = InitialDisk
  /\ lastCli = NoCli
  /\ lastAuth = NoAuthCall
  /\ lastMask = NoMask
  /\ lastOp = NoOp

\* The same, with the GoogleAuth the GASApiService holds already
\* authenticated (authenticate() returned under the default strategy).
InitServiceAuthenticated ==
  /\ auth = [i \in Instances |->
               IF i = "service"
               THEN authenticate(GoogleAuthNew,
                      [serviceAccountKey |-> FALSE, credentialsPath |-> FALSE], TRUE)
               ELSE GoogleAuthNew]
  /\ authedSince = [i \in Instances |-> i = "service"]
  /\ authEvent = [i \in Instances |->
                    IF i = "service" THEN "authenticated" ELSE "constructed"]
  /\ lastCall = NoCall
  /\ files = InitialFiles
  /\ props = NoProps
  /\ encryptionKey = "K1"
  /\ now = 0
  /\ backup = NoBackup
  /\ cipher = NoCipher
  /\ calls = [c \in Callers |-> NoCaller]
  /\ disk = InitialDisk
  /\ lastCli = NoCli
  /\ lastAuth = NoAuthCall
  /\ lastMask = NoMask
  /\ lastOp = NoOp

remoteVars == <<files, props, encryptionKey, now, backup, cipher>>
authVars == <<auth, authedSince, authEvent>>
coreVars == <<auth, authedSince, authEvent, lastCall, files, props, encryptionKey,
              now, backup, cipher, lastOp, lastAuth>>
cliVars == <<disk, lastCli>>
extraVars == <<calls, disk, lastCli, lastAuth, lastMask>>

(***************************************************************************)
(* Authenticator actions                                                   *)
(***************************************************************************)
Authenticate(i) ==
  \E e \in Envs, ok \in BOOLEAN :
    /\ auth' = [auth EXCEPT ![i] = authenticate(auth[i], e, ok)]
    /\ authedSince' = [authedSince EXCEPT ![i] = authedSince[i] \/ ok]
    /\ authEvent' = [authEvent EXCEPT ![i] = IF ok THEN "authenticated" ELSE "authFailed"]
    /\ lastAuth' = AuthCall(e)
    /\ UNCHANGED <<lastCall, lastOp>>
    /\ UNCHANGED remoteVars
    /\ UNCHANGED <<calls, disk, lastCli, lastMask>>

Reset(i) ==
  /\ auth' = [auth EXCEPT ![i] = reset(auth[i])]
  /\ authedSince' = [authedSince EXCEPT ![i] = FALSE]
  /\ authEvent' = [authEvent EXCEPT ![i] = "reset"]
  /\ UNCHANGED <<lastCall, lastOp>>
  /\ UNCHANGED remoteVars
  /\ UNCHANGED extraVars

(***************************************************************************)
(* Tool Dispatcher: src/src/index.js                                       *)
(***************************************************************************)
Tools == {"list_gas_projects", "get_gas_file", "create_gas_file", "update_gas_file"}

\* The GoogleAuth the Dispatcher's GASApiService uses for its API clients.
\* The constructor builds `new GASApiService()` with no argument, so the
\* service falls back to a GoogleAuth of its own.
gasApiGoogleAuth(au) == au["service"]

\* A variant of the gate that calls authenticate() on every tool call.
needsAuthenticate_Always(a) == TRUE

\* ensureAuthenticated(): authenticate() is called when the Dispatcher's
\* GoogleAuth does not report isAuthenticated().
needsAuthenticate(a) == ~isAuthenticated(a)

\* The component operation a tool name routes to, run by this.gasApi.
toolOperation(tool, fs, name, source, a, net) ==
  IF tool = "list_gas_projects" THEN listProjects(fs, a, net)
  ELSE IF tool = "get_gas_file" THEN getFile(fs, name, a, net)
  ELSE IF tool = "create_gas_file" THEN createFile(fs, name, "SERVER_JS", source, a, net)
  ELSE updateFile(fs, name, source, a, net)

\* CallToolRequestSchema handler: ensureAuthenticated(), then the switch;
\* every error leaves as McpError(InternalError, "Tool execution failed: ...").
ToolCall ==
  \E tool \in Tools, e \in Envs, ok \in BOOLEAN, name \in FileNames,
     src \in Sources, net \in NetOutcomes :
    LET needAuth == needsAuthenticate(auth["dispatcher"])
        gateFailed == needAuth /\ ~ok
        au == IF needAuth
              THEN [auth EXCEPT !["dispatcher"] = authenticate(auth["dispatcher"], e, ok)]
              ELSE auth
        r == toolOperation(tool, files, name, UserSource(src), gasApiGoogleAuth(au), net)
    IN
    /\ needAuth \/ (ok /\ e = [serviceAccountKey |-> FALSE, credentialsPath |-> FALSE])
    /\ tool = "create_gas_file" => Len(files) < MaxFiles
    /\ auth' = au
    /\ authedSince' = [authedSince EXCEPT !["dispatcher"] = @ \/ (needAuth /\ ok)]
    /\ authEvent' = [authEvent EXCEPT !["dispatcher"] =
                       IF ~needAuth THEN @ ELSE IF ok THEN "authenticated" ELSE "authFailed"]
    /\ IF gateFailed
       THEN /\ lastCall' = [NoCall EXCEPT !.tool = tool, !.gate = "failed",
                                          !.threw = TRUE, !.error = "AuthFailed",
                                          !.authCalled = TRUE, !.outcome = "mcpError"]
            /\ UNCHANGED <<files, lastOp>>
       ELSE /\ lastCall' = [NoCall EXCEPT !.tool = tool, !.gate = "passed",
                                          !.threw = r.threw, !.error = r.error,
                                          !.authCalled = needAuth, !.invoked = TRUE,
                                          !.authedAtOp = isAuthenticated(au["dispatcher"]),
                                          !.opFailed = r.threw,
                                          !.outcome = IF r.threw THEN "mcpError"
                                                      ELSE "content"]
            /\ files' = r.files
            /\ lastOp' = FileOp(tool, name, UserSource(src), files, r)
    /\ lastAuth' = IF needAuth THEN AuthCall(e) ELSE lastAuth
    /\ UNCHANGED <<props, encryptionKey, now, backup, cipher>>
    /\ UNCHANGED <<calls, disk, lastCli, lastMask>>

(***************************************************************************)
(* Tool Dispatcher with the CLI tools: src/src/index-clasp-integrated.js   *)
(***************************************************************************)
\* Tool names for which name.startsWith('clasp_') holds: the six the switch
\* knows and one it does not.
ClaspTools == {"clasp_setup", "clasp_create", "clasp_clone", "clasp_pull",
               "clasp_push_and_deploy", "clasp_list"}
CliPrefixed == ClaspTools \cup {"clasp_unknown"}

\* A variant of the gate test that sends every tool name through the gate.
startsWithClasp_Never(name) == FALSE

\* name.startsWith('clasp_')
startsWithClasp(name) == name \in CliPrefixed

\* claspSetup ... claspList: the ClaspService operation runs inside a try
\* whose catch returns a content result holding the error text.
\* The methods of the ClaspService imported from clasp-service-es6.js, each
\* with its parameter list.
ClaspServiceMethods ==
  [setup |-> <<"options">>, create |-> <<"options">>, clone |-> <<"options">>,
   pull |-> <<"options">>, pushAndDeploy |-> <<"options">>, list |-> <<>>,
   checkLoginStatus |-> <<>>, checkApiStatus |-> <<>>, readClaspConfig |-> <<>>,
   parseProjectList |-> <<"listOutput">>, executeCommand |-> <<"command">>,
   getConfig |-> <<>>, updateConfig |-> <<"config">>]

\* The call claspSetup ... claspList make on this.claspService: the method
\* name and the arguments handed over.
claspRoute(tool) ==
  CASE tool = "clasp_setup" -> [method |-> "setupClasp", args |-> <<"options">>]
    [] tool = "clasp_create" -> [method |-> "createProject", args |-> <<"projectName", "options">>]
    [] tool = "clasp_clone" -> [method |-> "cloneProject", args |-> <<"scriptId", "options">>]
    [] tool = "clasp_pull" -> [method |-> "pullChanges", args |-> <<"projectDir", "options">>]
    [] tool = "clasp_push_and_deploy" ->
         [method |-> "pushAndDeploy", args |-> <<"projectDir", "options">>]
    [] OTHER -> [method |-> "listProjects", args |-> <<"options">>]

methodDefined(tool) == claspRoute(tool).method \in DOMAIN ClaspServiceMethods
argsFit(tool) ==
  /\ methodDefined(tool)
  /\ ClaspServiceMethods[claspRoute(tool).method] = claspRoute(tool).args

claspTool(tool, cliOk) ==
  IF ~methodDefined(tool)
  THEN [threw |-> FALSE, opFailed |-> TRUE, error |-> "TypeError"]
  ELSE [threw |-> FALSE, opFailed |-> ~cliOk,
        error |-> IF cliOk THEN "none" ELSE "ClaspFailed"]

\* CallToolRequestSchema handler: ensureAuthenticated() unless the name has
\* the CLI prefix, then the switch; every error that reaches the catch
\* leaves as McpError(InternalError, "Tool execution failed: ...").
ClaspToolCall ==
  \E tool \in CliPrefixed \cup Tools \cup {"unknown_tool"}, e \in Envs, ok \in BOOLEAN,
     name \in FileNames, src \in Sources, net \in NetOutcomes, cliOk \in BOOLEAN :
    LET cli == startsWithClasp(tool)
        needAuth == ~cli /\ ~isAuthenticated(auth["dispatcher"])
        gateFailed == needAuth /\ ~ok
        au == IF needAuth
              THEN [auth EXCEPT !["dispatcher"] = authenticate(auth["dispatcher"], e, ok)]
              ELSE auth
        known == tool \in ClaspTools \cup Tools
        r == IF tool \in ClaspTools
             THEN claspTool(tool, cliOk)
             ELSE IF tool \in Tools
             THEN LET t == toolOperation(tool, files, name, UserSource(src),
                                         gasApiGoogleAuth(au), net)
                  IN [threw |-> t.threw, opFailed |-> t.threw, error |-> t.error]
             ELSE [threw |-> TRUE, opFailed |-> FALSE, error |-> "MethodNotFound"]
    IN
    /\ needAuth \/ (ok /\ e = [serviceAccountKey |-> FALSE, credentialsPath |-> FALSE])
    /\ tool \in ClaspTools \/ (cliOk /\ name = UserName("Code") /\ src = "s1")
    /\ tool \in Tools \/ net = "ok"
    /\ tool = "create_gas_file" => Len(files) < MaxFiles
    /\ auth' = au
    /\ authedSince' = [authedSince EXCEPT !["dispatcher"] = @ \/ (needAuth /\ ok)]
    /\ authEvent' = [authEvent EXCEPT !["dispatcher"] =
                       IF ~needAuth THEN @ ELSE IF ok THEN "authenticated" ELSE "authFailed"]
    /\ lastCall' =
         IF gateFailed
         THEN [NoCall EXCEPT !.tool = tool, !.gate = "failed", !.threw = TRUE,
                             !.error = "AuthFailed", !.authCalled = TRUE,
                             !.outcome = "mcpError"]
         ELSE [NoCall EXCEPT !.tool = tool,
                             !.gate = IF cli THEN "skipped" ELSE "passed",
                             !.threw = r.threw, !.error = r.error,
                             !.authCalled = needAuth, !.invoked = known,
                             !.authedAtOp = isAuthenticated(au["dispatcher"]),
                             !.opFailed = r.opFailed,
                             !.outcome = IF r.threw THEN "mcpError" ELSE "content",
                             !.method = IF tool \in ClaspTools
                                        THEN claspRoute(tool).method ELSE "none",
                             !.defined = tool \in ClaspTools /\ methodDefined(tool),
                             !.shapeOk = tool \in ClaspTools /\ argsFit(tool)]
    /\ lastAuth' = IF needAuth THEN AuthCall(e) ELSE lastAuth
    /\ UNCHANGED <<files, lastOp>>
    /\ UNCHANGED <<props, encryptionKey, now, backup, cipher>>
    /\ UNCHANGED <<calls, disk, lastCli, lastMask>>

(***************************************************************************)
(* Two callers of the property operations.  executePropertiesOperation is  *)
(* three awaited remote calls (createFile, executeFunction, deleteFile);    *)
(* the other caller runs between them.                                     *)
(***************************************************************************)
\* Step 1 and 2: the handler is synthesized and its temporary file created.
PropCreate(c) ==
  \E operation \in {"setProperty", "getProperty"},
     key \in {IF c = "A" THEN "API_KEY" ELSE "note"},
     value \in {IF c = "A" THEN Plain("abc") ELSE Plain("xyz")} :
    \E gasCode \in {[fn |-> operation, key |-> key,
                      value |-> IF operation = "setProperty" THEN value ELSE Null]} :
    \E r \in {createFile(files, tempFileName(operation, now), "SERVER_JS", gasCode,
                         auth["service"], "ok")} :
    /\ calls[c].phase = "idle"
    /\ Len(files) <= MaxFiles
    /\ files' = r.files
    /\ calls' = [calls EXCEPT ![c] = [NoCaller EXCEPT !.phase = "created",
                                                      !.op = operation,
                                                      !.name = tempFileName(operation, now),
                                                      !.source = gasCode]]
    /\ UNCHANGED <<props, encryptionKey, now, backup, cipher, lastCall, lastOp>>
    /\ UNCHANGED authVars
    /\ UNCHANGED <<cliVars, lastAuth, lastMask>>

\* Step 3: the function named after the operation is executed.
PropExecute(c) ==
  \E e \in {executeFunction(files, props, calls[c].op, auth["service"], "ok")} :
    /\ calls[c].phase = "created"
    /\ props' = e.props
    /\ calls' = [calls EXCEPT ![c].phase = "executed",
                              ![c].ran = IF HandlerIndex(files, calls[c].op) = 0
                                         THEN NoSource
                                         ELSE files[HandlerIndex(files, calls[c].op)].source,
                              ![c].ret = e.result.result]
    /\ UNCHANGED <<files, encryptionKey, now, backup, cipher, lastCall, lastOp>>
    /\ UNCHANGED authVars
    /\ UNCHANGED <<cliVars, lastAuth, lastMask>>

\* Step 4: the temporary file is deleted (or the delete fails and the file
\* stays behind).
PropDelete(c) ==
  \E net \in {"ok", "writeFail"} :
    \E d \in {deleteFile(files, calls[c].name, auth["service"], net)} :
    /\ calls[c].phase = "executed"
    /\ files' = d.files
    /\ calls' = [calls EXCEPT ![c].phase = "done", ![c].threw = d.threw,
                              ![c].error = d.error]
    /\ UNCHANGED <<props, encryptionKey, now, backup, cipher, lastCall, lastOp>>
    /\ UNCHANGED authVars
    /\ UNCHANGED <<cliVars, lastAuth, lastMask>>

PropReturn(c) ==
  /\ calls[c].phase = "done"
  /\ calls' = [calls EXCEPT ![c] = NoCaller]
  /\ UNCHANGED <<files, props, encryptionKey, now, backup, cipher, lastCall, lastOp>>
  /\ UNCHANGED authVars
  /\ UNCHANGED <<cliVars, lastAuth, lastMask>>

(***************************************************************************)
(* executeFunction called on its own (tool execute_gas_function)           *)
(***************************************************************************)
ExecuteFunction ==
  \E outcome \in ExecOutcomes :
    \E r \in {executeFunction(files, props, "user", auth["service"], outcome)} :
    /\ props' = r.props
    /\ lastOp' = [NoOp EXCEPT !.op = "executeFunction", !.pre = files,
                              !.preProps = props, !.threw = r.threw,
                              !.error = r.error, !.exec = r.result,
                              !.outcome = outcome,
                              !.authed = isAuthenticated(auth["service"])]
    /\ UNCHANGED <<files, encryptionKey, now, backup, cipher, lastCall>>
    /\ UNCHANGED authVars
    /\ UNCHANGED extraVars

(***************************************************************************)
(* Masked display of a value (listProperties with maskValues)              *)
(***************************************************************************)
MaskApiKey ==
  \E secret \in Secrets :
    /\ lastMask' = [masked |-> TRUE, secret |-> secret, shown |-> maskApiKey(secret)]
    /\ UNCHANGED <<coreVars, calls, cliVars>>

(***************************************************************************)
(* Library management actions                                              *)
(***************************************************************************)
LibOp(op, pre, r) ==
  [NoOp EXCEPT !.op = op, !.pre = pre, !.threw = r.threw, !.error = r.error,
               !.issued = r.issued, !.libraries = r.libraries]

\* The manifest is edited outside this program (script editor): removed,
\* made unparsable, or reset to an object without dependencies.
EditManifest ==
  \E m \in {"absent", "malformed", "empty"} :
    /\ files' = FilterOut(files, ManifestName) \o
                 (CASE m = "absent" -> <<>>
                    [] m = "malformed" -> <<ManifestFile(Malformed)>>
                    [] OTHER -> <<ManifestFile(ManifestSource(TRUE, FALSE, <<>>))>>)
    /\ files' # files
    /\ UNCHANGED <<lastOp, props, encryptionKey, now, backup, cipher, lastCall>>
    /\ UNCHANGED authVars
    /\ UNCHANGED extraVars

ListLibraries ==
  \E net \in {"ok", "fetchFail"} :
    \E r \in {listLibraries(files, auth["service"], net)} :
    /\ lastOp' = LibOp("listLibraries", files, r)
    /\ UNCHANGED <<files, props, encryptionKey, now, backup, cipher, lastCall>>
    /\ UNCHANGED authVars
    /\ UNCHANGED extraVars

AddLibrary ==
  \E libraryId \in LibraryIds, version \in Versions, net \in NetOutcomes :
    \E r \in {addLibrary(files, libraryId, version, auth["service"], net)} :
    /\ Len(r.libraries) <= MaxLibraries
    /\ files' = r.files
    /\ lastOp' = LibOp("addLibrary", files, r)
    /\ UNCHANGED <<props, encryptionKey, now, backup, cipher, lastCall>>
    /\ UNCHANGED authVars
    /\ UNCHANGED extraVars

RemoveLibrary ==
  \E libraryId \in LibraryIds, net \in NetOutcomes :
    \E r \in {removeLibrary(files, libraryId, auth["service"], net)} :
    /\ files' = r.files
    /\ lastOp' = LibOp("removeLibrary", files, r)
    /\ UNCHANGED <<props, encryptionKey, now, backup, cipher, lastCall>>
    /\ UNCHANGED authVars
    /\ UNCHANGED extraVars

UpdateLibrary ==
  \E libraryId \in LibraryIds, version \in Versions, net \in NetOutcomes :
    \E r \in {updateLibrary(files, libraryId, version, auth["service"], net)} :
    /\ files' = r.files
    /\ lastOp' = LibOp("updateLibrary", files, r)
    /\ UNCHANGED <<props, encryptionKey, now, backup, cipher, lastCall>>
    /\ UNCHANGED authVars
    /\ UNCHANGED extraVars

(***************************************************************************)
(* CLI Integration Layer actions                                           *)
(***************************************************************************)
\* The user writes or removes an environment configuration file, or removes
\* the active configuration file.  lastCli is about the operation that ran
\* on the files as they are, so an edit clears it.
EditEnvFile ==
  \E e \in DiskEnvs \cup {"active"}, present \in BOOLEAN :
    /\ disk' = IF e = "active"
               THEN [disk EXCEPT !.active = "absent"]
               ELSE [disk EXCEPT !.env[e] = IF present THEN EnvContent(e) ELSE "absent"]
    /\ disk' # disk
    /\ lastCli' = NoCli
    /\ UNCHANGED <<coreVars, calls, lastMask>>

PullChanges ==
  \E environment \in EnvironmentOptions, backupOk, copyOk \in BOOLEAN, sub \in SubOutcomes :
    /\ environment = "none" => (backupOk /\ copyOk)
    /\ \E r \in {pullChanges(disk, environment, backupOk, copyOk, sub)} :
       /\ disk' = r.disk
       /\ lastCli' = [NoCli EXCEPT !.op = "pullChanges", !.environment = environment,
                                   !.pre = disk, !.post = r.disk, !.sub = sub,
                                   !.threw = r.threw, !.error = r.error,
                                   !.spawned = r.spawned]
       /\ UNCHANGED <<coreVars, calls, lastMask>>

PushAndDeploy ==
  \E environment \in EnvironmentOptions, backupOk, copyOk, deploy \in BOOLEAN,
     sub, subDeploy \in SubOutcomes :
    /\ environment = "none" => (backupOk /\ copyOk)
    /\ (sub # "ok" \/ ~deploy) => subDeploy = "ok"
    /\ \E r \in {pushAndDeploy(disk, environment, backupOk, copyOk, deploy, sub, subDeploy)} :
       /\ disk' = r.disk
       /\ lastCli' = [NoCli EXCEPT !.op = "pushAndDeploy", !.environment = environment,
                                   !.pre = disk, !.post = r.disk, !.sub = sub,
                                   !.threw = r.threw, !.error = r.error,
                                   !.spawned = r.spawned, !.variant = "gas-api",
                                   !.deploy = deploy, !.subDeploy = subDeploy,
                                   !.deployed = r.deployed, !.success = r.success]
       /\ UNCHANGED <<coreVars, calls, lastMask>>

\* pushAndDeploy of the ClaspService of clasp-service-es6.js.
PushAndDeployEs6 ==
  \E sub, subDeploy \in SubOutcomes :
    /\ sub # "ok" => subDeploy = "ok"
    /\ \E r \in {pushAndDeploy_es6(sub, subDeploy)} :
       /\ lastCli' = [NoCli EXCEPT !.op = "pushAndDeploy", !.pre = disk, !.post = disk,
                                   !.sub = sub, !.threw = r.threw, !.error = r.error,
                                   !.spawned = r.spawned, !.variant = "es6",
                                   !.subDeploy = subDeploy,
                                   !.deployed = r.deployed, !.success = r.success]
       /\ UNCHANGED disk
       /\ UNCHANGED <<coreVars, calls, lastMask>>

SwitchEnvironment ==
  \E environment \in EnvironmentOptions \ {"none"}, backupOk, copyOk \in BOOLEAN :
    \E r \in {switchEnvironment(disk, environment, backupOk, copyOk)} :
    /\ disk' = r.disk
    /\ lastCli' = [NoCli EXCEPT !.op = "switchEnvironment", !.environment = environment,
                                !.pre = disk, !.post = r.disk, !.backupOk = backupOk,
                                !.threw = r.threw, !.error = r.error]
    /\ UNCHANGED <<coreVars, calls, lastMask>>

\* One subprocess invocation by either ClaspService.
ExecuteCommand ==
  \E layer \in {"executeCommand", "executeClaspCommand"}, sub \in SubOutcomes :
    \E r \in {IF layer = "executeCommand" THEN executeCommand(sub)
               ELSE executeClaspCommand(sub)} :
    /\ lastCli' = [NoCli EXCEPT !.op = layer, !.pre = disk, !.post = disk, !.sub = sub,
                                !.threw = r.threw, !.error = r.error,
                                !.spawned = r.spawned, !.record = r.record]
    /\ UNCHANGED disk
    /\ UNCHANGED <<coreVars, calls, lastMask>>

(***************************************************************************)
(* Script API Client actions (a caller of GASApiService, one at a time)    *)
(***************************************************************************)
CreateFile ==
  \E name \in FileNames, src \in Sources, net \in NetOutcomes :
    \E r \in {createFile(files, name, "SERVER_JS", UserSource(src), auth["service"], net)} :
    /\ Len(files) < MaxFiles
    /\ files' = r.files
    /\ lastOp' = FileOp("createFile", name, UserSource(src), files, r)
    /\ UNCHANGED <<props, encryptionKey, now, backup, cipher, lastCall>>
    /\ UNCHANGED authVars
    /\ UNCHANGED extraVars

UpdateFile ==
  \E name \in FileNames, src \in Sources, net \in NetOutcomes :
    \E r \in {updateFile(files, name, UserSource(src), auth["service"], net)} :
    /\ files' = r.files
    /\ lastOp' = FileOp("updateFile", name, UserSource(src), files, r)
    /\ UNCHANGED <<props, encryptionKey, now, backup, cipher, lastCall>>
    /\ UNCHANGED authVars
    /\ UNCHANGED extraVars

DeleteFile ==
  \E name \in FileNames, net \in NetOutcomes :
    \E r \in {deleteFile(files, name, auth["service"], net)} :
    /\ files' = r.files
    /\ lastOp' = FileOp("deleteFile", name, NoSource, files, r)
    /\ UNCHANGED <<props, encryptionKey, now, backup, cipher, lastCall>>
    /\ UNCHANGED authVars
    /\ UNCHANGED extraVars

(***************************************************************************)
(* Two callers of the file-level mutations.  Each mutation is a fetch      *)
(* (getProject), a local computation of the new collection, and a write    *)
(* (updateProject) of the whole collection; the awaits between them let    *)
(* the other caller run.                                                   *)
(***************************************************************************)
Mutations == {"createFile", "updateFile", "deleteFile"}

\* The mutation op applied in one piece to the collection fs.
mutation(op, fs, name, source, a, net) ==
  IF op = "createFile" THEN createFile(fs, name, "SERVER_JS", source, a, net)
  ELSE IF op = "updateFile" THEN updateFile(fs, name, source, a, net)
  ELSE deleteFile(fs, name, a, net)

\* The call up to its await of updateProject: it has fetched the collection
\* and built the one it will write, or it has thrown.
Fetch(c) ==
  \E op \in Mutations, name \in FileNames, src \in {"s2"}, net \in {"ok", "fetchFail"} :
    \E r \in {mutation(op, files, name, UserSource(src), auth["service"], net)} :
    /\ calls[c].phase = "idle"
    /\ op = "createFile" => Len(files) < MaxFiles
    /\ calls' = [calls EXCEPT ![c] =
                   [NoCaller EXCEPT !.phase = IF r.threw THEN "done" ELSE "fetched",
                                    !.op = op, !.name = name,
                                    !.source = UserSource(src),
                                    !.snap = files,
                                    !.content = IF r.threw THEN <<>> ELSE r.files,
                                    !.threw = r.threw, !.error = r.error]]
    /\ UNCHANGED <<files, props, encryptionKey, now, backup, cipher, lastCall, lastOp>>
    /\ UNCHANGED authVars
    /\ UNCHANGED <<cliVars, lastAuth, lastMask>>

\* The call's updateProject: the whole collection it built replaces the
\* remote one.
Write(c) ==
  \E net \in {"ok", "writeFail"} :
    \E u \in {updateProject(files, calls[c].content, auth["service"], net)} :
    /\ calls[c].phase = "fetched"
    /\ files' = u.files
    /\ calls' = [calls EXCEPT ![c] =
                   [@ EXCEPT !.phase = "done", !.threw = u.threw, !.error = u.error,
                             !.first = ~u.threw /\ calls[Other(c)].phase = "fetched",
                             !.last = /\ ~u.threw
                                      /\ calls[Other(c)].phase = "done"
                                      /\ calls[Other(c)].first]]
    /\ UNCHANGED <<props, encryptionKey, now, backup, cipher, lastCall, lastOp>>
    /\ UNCHANGED authVars
    /\ UNCHANGED <<cliVars, lastAuth, lastMask>>

\* The calls that ran have returned to their callers, who may start others.
Return ==
  /\ \E c \in Callers : calls[c].phase = "done"
  /\ \A c \in Callers : calls[c].phase # "fetched"
  /\ calls' = [c \in Callers |-> NoCaller]
  /\ UNCHANGED <<files, props, encryptionKey, now, backup, cipher, lastCall, lastOp>>
  /\ UNCHANGED authVars
  /\ UNCHANGED <<cliVars, lastAuth, lastMask>>

(***************************************************************************)
(* Properties Manager actions (one caller at a time)                       *)
(***************************************************************************)
Plaintexts == {Plain(""), Plain("abc")}

\* Of the remote outcomes of one property operation, those that differ in
\* what the operation sees: a step after the one that throws never runs.
Canonical(ch) ==
  /\ ch.c # "ok" => (ch.x = "ok" /\ ch.d = "ok")
  /\ ch.x = "throw" => ch.d = "ok"

\* One outcome per step that can end the operation, and the remote
\* execution error that does not end it.
ExecError == [c |-> "ok", x |-> "error", d |-> "ok"]
ExecThrow == [c |-> "ok", x |-> "throw", d |-> "ok"]
CreateFail == [c |-> "fetchFail", x |-> "ok", d |-> "ok"]
DeleteFail == [c |-> "ok", x |-> "ok", d |-> "writeFail"]
StepChoices == {AllOk, ExecError, ExecThrow, CreateFail, DeleteFail}

\* Remote outcomes that leave no temporary file behind.
TidyChoices == {AllOk, ExecError, CreateFail}

SetSecureProperty(keys, values, ivs, chs) ==
  \E key \in keys, value \in values, enc \in BOOLEAN, iv \in ivs, ch \in chs :
    \E r \in {setSecureProperty(files, props, key, value, enc, encryptionKey, iv,
                               auth["service"], now, ch)} :
    /\ Canonical(ch)
    /\ Len(r.files) <= MaxFiles
    /\ files' = r.files
    /\ props' = r.props
    /\ lastOp' = [PropOp("setSecureProperty", key, value, enc, files, encryptionKey, r)
                  EXCEPT !.writes = 1]
    /\ UNCHANGED <<encryptionKey, now, backup, cipher, lastCall>>
    /\ UNCHANGED authVars
    /\ UNCHANGED extraVars

GetSecureProperty(keys, chs) ==
  \E key \in keys, dec \in BOOLEAN, ch \in chs :
    \E r \in {getSecureProperty(files, props, key, dec, encryptionKey,
                               auth["service"], now, ch)} :
    /\ Canonical(ch)
    /\ Len(r.files) <= MaxFiles
    /\ files' = r.files
    /\ props' = r.props
    /\ lastOp' = PropOp("getSecureProperty", key, props[key], dec, files,
                      encryptionKey, r)
    /\ UNCHANGED <<encryptionKey, now, backup, cipher, lastCall>>
    /\ UNCHANGED authVars
    /\ UNCHANGED extraVars

DeleteProperty(keys, chs) ==
  \E key \in keys, ch \in chs :
    \E r \in {deleteProperty(files, props, key, auth["service"], now, ch)} :
    /\ Canonical(ch)
    /\ Len(r.files) <= MaxFiles
    /\ files' = r.files
    /\ props' = r.props
    /\ lastOp' = PropOp("deleteProperty", key, Null, FALSE, files, encryptionKey, r)
    /\ UNCHANGED <<encryptionKey, now, backup, cipher, lastCall>>
    /\ UNCHANGED authVars
    /\ UNCHANGED extraVars

\* Time passes between two reads of Date.now().
Tick ==
  /\ now < MaxClock
  /\ now' = now + 1
  /\ UNCHANGED <<files, props, encryptionKey, backup, cipher, lastCall, lastOp>>
  /\ UNCHANGED authVars
  /\ UNCHANGED extraVars

\* The process restarts: a new SecurityManager takes its key from
\* ENCRYPTION_KEY or draws a fresh one (getOrCreateEncryptionKey).
Restart ==
  \E k \in EncryptionKeys :
    /\ encryptionKey' = k
    /\ UNCHANGED <<files, props, now, backup, cipher, lastCall, lastOp>>
    /\ UNCHANGED authVars
    /\ UNCHANGED extraVars

(***************************************************************************)
(* Backup and restore actions                                              *)
(***************************************************************************)
\* How many envelopes a stored value is wrapped in.
RECURSIVE Nesting(_)
Nesting(v) == IF v.t = "env" THEN 1 + Nesting(v.data.encrypted.p) ELSE 0

\* The value getSecureProperty(key, decrypt = true) hands back for each key
\* of a property store when its remote calls go through.
ViewOf(ps, encKey) ==
  [k \in PropertyKeys |->
     getSecureProperty(InitialFiles, ps, k, TRUE, encKey, auth["service"], 0, AllOk).ret]

BackupProperties ==
  \E includeEncrypted \in BOOLEAN, ch \in TidyChoices :
    \E r \in {backupProperties(files, props, includeEncrypted, encryptionKey,
                              auth["service"], now, ch)} :
    /\ files' = r.files
    /\ props' = r.props
    /\ backup' = IF r.threw THEN backup ELSE r.backup
    /\ lastOp' = [PropOp("backupProperties", "", Null, includeEncrypted, files,
                         encryptionKey, r)
                  EXCEPT !.preProps = props]
    /\ UNCHANGED <<encryptionKey, now, cipher, lastCall>>
    /\ UNCHANGED authVars
    /\ UNCHANGED extraVars

AuditProperties ==
  \E ch \in TidyChoices :
    \E r \in {auditProperties(files, props, encryptionKey, auth["service"], now, ch)} :
    /\ files' = r.files
    /\ props' = r.props
    /\ lastOp' = [PropOp("auditProperties", "", Null, FALSE, files, encryptionKey, r)
                  EXCEPT !.preProps = props, !.audit = r.audit]
    /\ UNCHANGED <<encryptionKey, now, backup, cipher, lastCall>>
    /\ UNCHANGED authVars
    /\ UNCHANGED extraVars

\* The caller edits the mapping of the snapshot it holds (changes a value,
\* adds a key, removes a key) and leaves the checksum as it was.
TamperBackup ==
  \E key \in PropertyKeys, v \in {Plain("evil"), Null} :
    /\ backup.taken
    /\ backup.properties = backup.sealed
    /\ backup.properties[key] # v
    /\ backup' = [backup EXCEPT !.properties[key] = v]
    /\ UNCHANGED <<files, props, encryptionKey, now, cipher, lastCall, lastOp>>
    /\ UNCHANGED authVars
    /\ UNCHANGED extraVars

RestoreProperties ==
  \E verifyChecksum \in BOOLEAN, chs \in [PropertyKeys -> TidyChoices] :
    \E r \in {restoreProperties(files, props, backup, verifyChecksum, encryptionKey,
                               "iv1", auth["service"], now, chs)} :
    /\ backup.taken
    /\ \A k \in PropertyKeys : Nesting(r.props[k]) <= MaxNesting
    /\ files' = r.files
    /\ props' = r.props
    /\ lastOp' = [NoOp EXCEPT !.op = "restoreProperties", !.flag = verifyChecksum,
                              !.pre = files, !.preProps = props,
                              !.encKey = encryptionKey,
                              !.tampered = (backup.properties # backup.sealed),
                              !.threw = r.threw, !.error = r.error,
                              !.issued = r.issued, !.writes = r.writes,
                              !.step = r.restored, !.postProps = r.props,
                              !.fresh = (backup.origin = props /\
                                         backup.encKey = encryptionKey),
                              !.count = backup.propertyCount]
    /\ UNCHANGED <<encryptionKey, now, backup, cipher, lastCall>>
    /\ UNCHANGED authVars
    /\ UNCHANGED extraVars

(***************************************************************************)
(* Encryption Helper actions                                               *)
(***************************************************************************)
CipherTexts == {Plain(""), Plain("abc"), Plain("123")}

\* The bytes of the authentication tag a tamperer flips.
FlipPositions == {1, 2}

Encrypt ==
  \E text \in CipherTexts, iv \in IVs :
    /\ iv # cipher.drawn
    /\ cipher' = [NoCipher EXCEPT !.phase = "encrypted", !.text = text,
                                  !.data = encrypt(text, encryptionKey, iv),
                                  !.encKey = encryptionKey,
                                  !.drawn = iv,
                                  !.usedIV = CipherIV(encryptionKey),
                                  !.prevKey = cipher.encKey,
                                  !.prevUsedIV = cipher.usedIV]
    /\ UNCHANGED <<files, props, encryptionKey, now, backup, lastCall, lastOp>>
    /\ UNCHANGED authVars
    /\ UNCHANGED extraVars

TamperTag ==
  \E f \in FlipPositions :
    /\ cipher.phase = "encrypted"
    /\ ~cipher.tampered
    /\ cipher' = [cipher EXCEPT !.data.authTag.flip = f, !.tampered = TRUE]
    /\ UNCHANGED <<files, props, encryptionKey, now, backup, lastCall, lastOp>>
    /\ UNCHANGED authVars
    /\ UNCHANGED extraVars

Decrypt ==
  /\ cipher.phase = "encrypted"
  /\ cipher' = [cipher EXCEPT !.phase = "decrypted", !.decKey = encryptionKey,
                              !.out = decrypt(cipher.data, encryptionKey)]
  /\ UNCHANGED <<files, props, encryptionKey, now, backup, lastCall, lastOp>>
  /\ UNCHANGED authVars
  /\ UNCHANGED extraVars

(***************************************************************************)
(* Specifications                                                          *)
(***************************************************************************)
\* The server process of index.js: the Dispatcher and the GoogleAuth it
\* holds.  Nothing in the process calls authenticate() or reset() on the
\* GoogleAuth that the GASApiService built for itself.
NextAuth ==
  \/ Authenticate("dispatcher")
  \/ Reset("dispatcher")
  \/ ToolCall

SpecAuth == Init /\ [][NextAuth]_vars

\* The same process with nothing but tool calls arriving.
SpecToolCalls == Init /\ [][ToolCall]_vars

\* File-level operations of an authenticated GASApiService.
NextFiles ==
  \/ CreateFile
  \/ UpdateFile
  \/ DeleteFile

SpecFiles == InitServiceAuthenticated /\ [][NextFiles]_vars

\* Property operations of a PropertiesManager over an authenticated service,
\* on one property key.
NextProps ==
  \/ SetSecureProperty({"API_KEY"}, Plaintexts, {"iv1"}, StepChoices)
  \/ GetSecureProperty({"API_KEY"}, StepChoices)
  \/ DeleteProperty({"API_KEY"}, StepChoices)
  \/ Tick
  \/ Restart

SpecProps == InitServiceAuthenticated /\ [][NextProps]_vars

\* The Dispatcher with the CLI tools; reset() stands for a restart of the
\* server's Authenticator.
NextClaspDispatch ==
  \/ ClaspToolCall
  \/ Reset("dispatcher")

SpecClaspDispatch == Init /\ [][NextClaspDispatch]_vars

\* A GASApiService whose authenticator is authenticated and reset by its
\* owner, running functions of the project.
NextExecute ==
  \/ Authenticate("service")
  \/ Reset("service")
  \/ ExecuteFunction
  \/ UpdateFile

SpecExecute == Init /\ [][NextExecute]_vars

\* Values masked for display, one after another.
SpecMask == Init /\ [][MaskApiKey]_vars

\* Two callers of the property operations, interleaved at their awaits.
NextPropRace ==
  \/ \E c \in Callers : PropCreate(c)
  \/ \E c \in Callers : PropExecute(c)
  \/ \E c \in Callers : PropDelete(c)
  \/ \E c \in Callers : PropReturn(c)
  \/ Tick

SpecPropRace == InitServiceAuthenticated /\ [][NextPropRace]_vars

\* Library management over one project.
NextLibraries ==
  \/ EditManifest
  \/ ListLibraries
  \/ AddLibrary
  \/ RemoveLibrary
  \/ UpdateLibrary

SpecLibraries == InitServiceAuthenticated /\ [][NextLibraries]_vars

\* The CLI Integration Layer over one project directory.
NextCli ==
  \/ EditEnvFile
  \/ SwitchEnvironment
  \/ PullChanges
  \/ PushAndDeploy
  \/ PushAndDeployEs6
  \/ ExecuteCommand

SpecCli == Init /\ [][NextCli]_vars

\* Two callers of the file-level mutations, interleaved at their awaits.
NextRace ==
  \/ \E c \in Callers : Fetch(c)
  \/ \E c \in Callers : Write(c)
  \/ Return

SpecRace == InitServiceAuthenticated /\ [][NextRace]_vars

\* Backup and restore of both properties, with remote outcomes that leave
\* no temporary file behind.
NextBackup ==
  \/ SetSecureProperty(PropertyKeys, {Plain("abc")}, {"iv1"}, TidyChoices)
  \/ BackupProperties
  \/ TamperBackup
  \/ RestoreProperties

SpecBackup == InitServiceAuthenticated /\ [][NextBackup]_vars

\* One property stored plain and encrypted, the empty string among its
\* values, the key changed by a restart, backed up and restored.
NextRoundTrip ==
  \/ SetSecureProperty({"API_KEY"}, Plaintexts, {"iv1"}, {AllOk})
  \/ Restart
  \/ BackupProperties
  \/ RestoreProperties

SpecRoundTrip == InitServiceAuthenticated /\ [][NextRoundTrip]_vars

\* Properties stored with and without encryption, and audited.
NextAudit ==
  \/ SetSecureProperty(PropertyKeys, {Plain("abc"), Plain("123")}, {"iv1"}, TidyChoices)
  \/ AuditProperties

SpecAudit == InitServiceAuthenticated /\ [][NextAudit]_vars

\* One SecurityManager: encrypt, tamper with the envelope, decrypt, restart.
NextCrypto ==
  \/ Encrypt
  \/ TamperTag
  \/ Decrypt
  \/ Restart

SpecCrypto == Init /\ [][NextCrypto]_vars

(***************************************************************************)
(* Claims                                                                  *)
(***************************************************************************)

\* C1: whenever a tool call's authentication gate succeeded, the
\* GASApiService operation it ran got its API client: the call did not end
\* with the not-authenticated error of getScriptApi()/getDriveApi().
C1_GatePassedGivesClients ==
  lastCall.gate = "passed" => lastCall.error # "NotAuthenticated"

\* C2: a getSecureProperty(key, decrypt = true) that fetched an envelope
\* encrypted under another key than the process holds fails; it returns
\* neither a plaintext nor the stored envelope text.
C2_WrongKeyFails ==
  ( /\ lastOp.op = "getSecureProperty"
    /\ lastOp.flag
    /\ lastOp.value.t = "env"
    /\ lastOp.value.data.encrypted.k # lastOp.encKey
    /\ lastOp.exec.response )
  => lastOp.threw

\* C3: after setSecureProperty(key, value, encrypt = true) completes, the raw
\* text stored under key parses as JSON with _encrypted true, and a
\* following getSecureProperty(key, decrypt = true) under the same
\* encryption key returns exactly value.
C3_SetThenGetRoundTrip ==
  ( /\ lastOp.op = "setSecureProperty"
    /\ lastOp.flag
    /\ ~lastOp.threw )
  => /\ ~JSONparse(props[lastOp.key]).threw
     /\ JSONparse(props[lastOp.key])._encrypted
     /\ getSecureProperty(files, props, lastOp.key, TRUE, lastOp.encKey,
                          auth["service"], now, AllOk).ret = lastOp.value

C5_TamperedRestoreFailsClosed ==
  ( /\ lastOp.op = "restoreProperties"
    /\ lastOp.flag
    /\ lastOp.tampered )
  => /\ lastOp.threw
     /\ lastOp.error = "IntegrityError"
     /\ lastOp.writes = 0
     /\ ~lastOp.issued
     /\ files = lastOp.pre
     /\ props = lastOp.preProps

C5_Witness ==
  /\ lastOp.op = "restoreProperties"
  /\ lastOp.flag
  /\ lastOp.tampered
  /\ lastOp.threw
  /\ \E k \in PropertyKeys : props[k] # Null

\* C11: when two file-level mutations both fetch the collection before
\* either writes it back and both writes go through, the remote collection
\* is the one the later writer built from what it fetched (the same
\* collection the earlier writer fetched, so the earlier change is not in
\* it), and neither call throws.
C11_LastWriterWins ==
  \A x, y \in Callers :
    ( /\ x # y
      /\ calls[x].phase = "done" /\ calls[x].first
      /\ calls[y].phase = "done" /\ calls[y].last )
    => /\ files = calls[y].content
       /\ calls[y].snap = calls[x].snap
       /\ files = mutation(calls[y].op, calls[x].snap, calls[y].name, calls[y].source,
                           auth["service"], "ok").files
       /\ ~calls[x].threw
       /\ ~calls[y].threw

C11_Witness ==
  /\ calls["A"].phase = "done" /\ calls["A"].first
  /\ calls["A"].op = "createFile"
  /\ calls["B"].phase = "done" /\ calls["B"].last
  /\ calls["B"].op = "updateFile"
  /\ \A i \in 1..Len(files) : files[i].name # calls["A"].name

\* C12: two invocations of executePropertiesOperation against the project,
\* one after the other, use different temporary file names.
C12_TempNamesDiffer ==
  [][ ( /\ lastOp.temp # NoName
        /\ lastOp' # lastOp
        /\ lastOp'.temp # NoName )
      => lastOp'.temp # lastOp.temp ]_vars

\* C13: a call of a tool name with the CLI prefix never invokes
\* authenticate(); for every other tool name the component operation is
\* invoked only when the Dispatcher's Authenticator reports
\* isAuthenticated(), and not at all when authenticate() failed.
C13_GateBeforeOperation ==
  /\ lastCall.tool \in CliPrefixed => ~lastCall.authCalled
  /\ (lastCall.tool \notin CliPrefixed /\ lastCall.invoked) => lastCall.authedAtOp
  /\ lastCall.gate = "failed" => ~lastCall.invoked

C13_Witness ==
  /\ lastCall.tool = "list_gas_projects"
  /\ lastCall.authCalled
  /\ lastCall.invoked
  /\ lastCall.authedAtOp

\* C14: whenever a component operation raised an error during a tool call,
\* what leaves the Dispatcher is the internal error "Tool execution failed:
\* ...", never a content result.
C14_UniformFailure ==
  lastCall.opFailed => lastCall.outcome = "mcpError"

ManifestOf(fs) ==
  IF IndexOfName(fs, ManifestName) = 0 THEN "absent"
  ELSE IF ~fs[IndexOfName(fs, ManifestName)].source.wellFormed THEN "malformed"
  ELSE "parsed"

C16_LibrariesWithoutManifest ==
  /\ ( /\ lastOp.op = "listLibraries"
       /\ lastOp.error \notin {"NotAuthenticated", "FetchFailed"}
       /\ ManifestOf(lastOp.pre) \in {"absent", "malformed"} )
     => (~lastOp.threw /\ lastOp.libraries = <<>>)
  /\ ( /\ lastOp.op \in {"addLibrary", "removeLibrary", "updateLibrary"}
       /\ ManifestOf(lastOp.pre) = "absent" )
     => (lastOp.threw /\ ~lastOp.issued)

\* C17: auditProperties counts every property it read as exactly one of
\* encrypted and plaintext; suspiciousKeys holds the key of every plaintext
\* property whose lower-cased name contains a sensitive keyword, whatever
\* its value, and no key of an encrypted property.
C17_AuditClassifies ==
  (lastOp.op = "auditProperties" /\ ~lastOp.threw /\ lastOp.exec.response)
  => LET seen == lastOp.exec.all
         present == {k \in PropertyKeys : seen[k] # Null}
         encrypted == {k \in present : seen[k].t = "env"}
     IN /\ lastOp.audit.totalProperties = Cardinality(present)
        /\ lastOp.audit.encryptedProperties = Cardinality(encrypted)
        /\ lastOp.audit.plaintextProperties = Cardinality(present \ encrypted)
        /\ \A k \in present \ encrypted : isSensitive(k) => k \in lastOp.audit.suspiciousKeys
        /\ \A k \in encrypted : k \notin lastOp.audit.suspiciousKeys

\* C18 as stated: executeFunction throws exactly when the transport call to
\* the run endpoint fails; a remote execution error is returned as a result
\* with an error field and no response field, a successful run as a result
\* with a response field and no error field.
C18_ThrowsIffTransportFails ==
  (lastOp.op = "executeFunction" /\ HandlerIndex(lastOp.pre, "user") # 0)
  => /\ lastOp.threw <=> lastOp.outcome = "throw"
     /\ lastOp.outcome = "error" =>
          (~lastOp.threw /\ lastOp.exec.error /\ ~lastOp.exec.response)
     /\ lastOp.outcome = "ok" =>
          (~lastOp.threw /\ lastOp.exec.response /\ ~lastOp.exec.error)

\* C18, with the client taken into account: executeFunction throws exactly
\* when its authenticator is not authenticated or the transport call fails;
\* otherwise the result is as above.
C18_ThrowsIffNoClientOrTransportFails ==
  (lastOp.op = "executeFunction" /\ HandlerIndex(lastOp.pre, "user") # 0)
  => /\ lastOp.threw <=> (~lastOp.authed \/ lastOp.outcome = "throw")
     /\ (lastOp.authed /\ lastOp.outcome = "error") =>
          (~lastOp.threw /\ lastOp.exec.error /\ ~lastOp.exec.response)
     /\ (lastOp.authed /\ lastOp.outcome = "ok") =>
          (~lastOp.threw /\ lastOp.exec.response /\ ~lastOp.exec.error)

C18_Witness ==
  /\ lastOp.op = "executeFunction"
  /\ lastOp.authed
  /\ lastOp.outcome = "error"
  /\ lastOp.exec.error
  /\ ~lastOp.threw

\* C20: an authenticate() call attempts exactly one strategy, the service
\* account when the key is set, else OAuth2 when the credentials path is
\* set, else the application default; and that strategy is the method
\* detectAuthMethod() reports for the same environment.
StrategyMethod == [serviceAccount |-> "service_account", oauth2 |-> "oauth",
                   default |-> "default"]

C20_StrategyPrecedence ==
  lastAuth.called
  => /\ Len(lastAuth.attempted) = 1
     /\ lastAuth.env.serviceAccountKey => lastAuth.attempted[1] = "serviceAccount"
     /\ (~lastAuth.env.serviceAccountKey /\ lastAuth.env.credentialsPath)
          => lastAuth.attempted[1] = "oauth2"
     /\ (~lastAuth.env.serviceAccountKey /\ ~lastAuth.env.credentialsPath)
          => lastAuth.attempted[1] = "default"
     /\ StrategyMethod[lastAuth.attempted[1]] = detectAuthMethod(lastAuth.env).method

C20_Witness ==
  /\ lastAuth.called
  /\ lastAuth.env.serviceAccountKey /\ lastAuth.env.credentialsPath
  /\ lastAuth.attempted = <<"serviceAccount">>
  /\ auth["dispatcher"].auth = "serviceAccount"

\* C21: the IV an encrypt call draws is the IV its cipher uses, and two
\* encrypt calls under one key never encrypt under the same IV.
C21_FreshIVInEffect ==
  cipher.phase = "encrypted"
  => /\ cipher.usedIV = cipher.data.iv
     /\ cipher.prevKey = cipher.encKey => cipher.usedIV # cipher.prevUsedIV

\* C22: for every non-empty secret, what maskApiKey shows (a prefix and a
\* suffix of the secret) leaves at least one character of the secret out.
C22_MaskHidesSomething ==
  (lastMask.masked /\ Len(lastMask.secret) > 0)
  => Len(lastMask.shown.prefix) + Len(lastMask.shown.suffix) < Len(lastMask.secret)

\* C23: after reset() the Authenticator holds no client, no credentials and
\* no flag, and isAuthenticated() is false; a second reset() changes nothing.
C23_ResetClearsAndIsIdempotent ==
  \A i \in Instances :
    /\ authEvent[i] = "reset" =>
         /\ auth[i].auth = "null"
         /\ auth[i].credentials = "null"
         /\ ~auth[i].isAuthenticatedFlag
         /\ ~isAuthenticated(auth[i])
         /\ reset(auth[i]) = auth[i]
    /\ reset(reset(auth[i])) = reset(auth[i])

C23_Witness ==
  /\ authEvent["dispatcher"] = "reset"
  /\ lastCall.gate = "passed" /\ lastCall.authCalled
  /\ lastAuth.attempted = <<"serviceAccount">>

\* C24: for each of the six advertised clasp_* tools, the method the
\* handler calls on the ClaspService it holds is defined by that class and
\* is handed its arguments in the shape its parameter list expects.
C24_ClaspRoutesResolve ==
  lastCall.tool \in ClaspTools => (lastCall.defined /\ lastCall.shapeOk)

\* C25: over a sequence of tool calls, a call made while the Dispatcher's
\* Authenticator is authenticated does not invoke authenticate(); a gate
\* whose authenticate() failed leaves the Authenticator unauthenticated, and
\* the next tool call invokes authenticate() again.
C25_OnlyCredentialStateCarried ==
  [][ /\ isAuthenticated(auth["dispatcher"]) =>
           (~lastCall'.authCalled /\ isAuthenticated(auth'["dispatcher"]))
      /\ lastCall'.gate = "failed" => ~isAuthenticated(auth'["dispatcher"])
      /\ lastCall.gate = "failed" => lastCall'.authCalled ]_vars

C25_Witness ==
  /\ lastCall.gate = "passed"
  /\ ~lastCall.authCalled
  /\ lastAuth.called
  /\ isAuthenticated(auth["dispatcher"])

\* C26 as stated: after a switchEnvironment that succeeded the active file
\* holds the environment file's content, the backup file holds the active
\* configuration as it was before the switch when there was one, and the
\* environment files are unchanged; a name that is not a configured
\* environment is rejected with no file touched.
C26_SwitchFrame ==
  lastCli.op = "switchEnvironment"
  => /\ ~lastCli.threw =>
          /\ lastCli.post.active = lastCli.pre.env[lastCli.environment]
          /\ lastCli.post.env = lastCli.pre.env
          /\ lastCli.pre.active # "absent" => lastCli.post.backup = lastCli.pre.active
     /\ lastCli.environment \notin environments =>
          /\ lastCli.threw /\ lastCli.error = "InvalidEnvironment"
          /\ lastCli.post = lastCli.pre

\* C26, with the backup best-effort: the backup file holds the previous
\* active configuration when there was one and the copy to the backup file
\* went through, and is unchanged otherwise.
C26_SwitchFrameBestEffortBackup ==
  lastCli.op = "switchEnvironment"
  => /\ ~lastCli.threw =>
          /\ lastCli.post.active = lastCli.pre.env[lastCli.environment]
          /\ lastCli.post.env = lastCli.pre.env
          /\ (lastCli.pre.active # "absent" /\ lastCli.backupOk)
               => lastCli.post.backup = lastCli.pre.active
          /\ ~(lastCli.pre.active # "absent" /\ lastCli.backupOk)
               => lastCli.post.backup = lastCli.pre.backup
     /\ lastCli.environment \notin environments =>
          /\ lastCli.threw /\ lastCli.error = "InvalidEnvironment"
          /\ lastCli.post = lastCli.pre

C26_Witness ==
  /\ lastCli.op = "switchEnvironment"
  /\ ~lastCli.threw
  /\ lastCli.environment = "production"
  /\ lastCli.pre.active = "stagingCfg"
  /\ lastCli.post.active = "productionCfg"
  /\ lastCli.post.backup = "stagingCfg"
  /\ lastCli.pre.backup = "default"

\* C27: the handler a property operation executes is the handler the same
\* operation synthesized, whatever other temporary files are in the project.
C27_RunsOwnHandler ==
  \A c \in Callers :
    (calls[c].op \in Operations /\ calls[c].phase \in {"executed", "done"})
    => calls[c].ran = calls[c].source

\* C28: a getSecureProperty that returns hands back null exactly when the
\* key has no value in the remote property store (not for a key stored with
\* the empty string, not when the remote execution reported an error).
C28_NullIffAbsent ==
  (lastOp.op = "getSecureProperty" /\ ~lastOp.threw)
  => (lastOp.ret = Null <=> lastOp.value = Null)

\* C29: in pushAndDeploy of both ClaspService variants the deploy subprocess
\* is invoked only after the push subprocess has completed successfully (a
\* push that fails or times out means no deploy), with deploy false in the
\* variant that accepts it no deploy is invoked, and a success result is
\* returned only if every subprocess that was invoked succeeded.
C29_DeployOnlyAfterPush ==
  lastCli.op = "pushAndDeploy"
  => /\ lastCli.deployed => (lastCli.spawned = 2 /\ lastCli.sub = "ok")
     /\ lastCli.sub # "ok" => ~lastCli.deployed
     /\ (lastCli.variant = "gas-api" /\ ~lastCli.deploy) => ~lastCli.deployed
     /\ lastCli.success
        => /\ ~lastCli.threw
           /\ lastCli.spawned >= 1
           /\ lastCli.sub = "ok"
           /\ lastCli.deployed => lastCli.subDeploy = "ok"

\* A push that timed out under the gas-api variant with deploy requested.
C29_Witness ==
  /\ lastCli.op = "pushAndDeploy"
  /\ lastCli.variant = "gas-api"
  /\ lastCli.deploy
  /\ lastCli.sub = "timeout"
  /\ lastCli.spawned = 1
  /\ ~lastCli.deployed

\* C30: restoring an unmodified backup into the project it was taken of,
\* under the same key, leaves getSecureProperty(k, decrypt = true) unchanged
\* for every key, adds and removes no key, and reports as restored the
\* backup's propertyCount (either includeEncrypted).
C30_BackupRestoreIdentity ==
  ( /\ lastOp.op = "restoreProperties"
    /\ ~lastOp.threw
    /\ lastOp.fresh
    /\ ~lastOp.tampered )
  => /\ ViewOf(lastOp.postProps, lastOp.encKey) = ViewOf(lastOp.preProps, lastOp.encKey)
     /\ {k \in PropertyKeys : lastOp.postProps[k] # Null}
          = {k \in PropertyKeys : lastOp.preProps[k] # Null}
     /\ lastOp.step = lastOp.count

\* C19: a subprocess invocation returns a record with the fields success,
\* stdout, stderr and command when the subprocess completes, throws when it
\* exits non-zero or times out (no record is returned for a failure), and
\* runs the command at most once.
C19_RecordOrThrow ==
  lastCli.op \in {"executeCommand", "executeClaspCommand"}
  => /\ lastCli.sub = "ok" =>
          /\ ~lastCli.threw
          /\ {"success", "stdout", "stderr", "command"} \subseteq lastCli.record.fields
     /\ lastCli.sub # "ok" => (lastCli.threw /\ ~lastCli.record.returned)
     /\ lastCli.spawned <= 1

\* C6: updateFile on a project with a file named fileName leaves the
\* collection with the same number of files, every other file unchanged and
\* the first file of that name changed in its source only; on a project
\* with no file of that name it fails (with file-not-found whenever the
\* project could be fetched), issues no write and leaves the remote
\* collection as it was.
C6_UpdateFileFrame ==
  lastOp.op = "updateFile" =>
    LET i == IndexOfName(lastOp.pre, lastOp.name) IN
    IF i # 0
    THEN /\ Len(files) = Len(lastOp.pre)
         /\ \A j \in 1..Len(files) : j # i => files[j] = lastOp.pre[j]
         /\ files[i].name = lastOp.pre[i].name
         /\ files[i].type = lastOp.pre[i].type
         /\ ~lastOp.threw => files[i].source = lastOp.source
         /\ lastOp.threw => files = lastOp.pre
    ELSE /\ lastOp.threw
         /\ lastOp.error \in {"FileNotFound", "FetchFailed"}
         /\ ~lastOp.issued
         /\ files = lastOp.pre

C6_Witness ==
  /\ lastOp.op = "updateFile"
  /\ ~lastOp.threw
  /\ Len(lastOp.pre) >= 2
  /\ IndexOfName(lastOp.pre, lastOp.name) = 2
  /\ files # lastOp.pre

\* C7: no two files of the remote collection share a name.
C7_NamesUnique ==
  \A i, j \in 1..Len(files) : i # j => files[i].name # files[j].name

\* C8: isAuthenticated() is true only if authenticate() completed
\* successfully since construction or the last reset(); whenever it is false,
\* getScriptApi() and getDriveApi() throw the not-authenticated error and
\* return no client.
C8_AuthenticatedOnlyAfterSuccess ==
  \A i \in Instances :
    /\ isAuthenticated(auth[i]) => authedSince[i]
    /\ ~isAuthenticated(auth[i]) =>
         /\ getScriptApi(auth[i]).threw
         /\ getScriptApi(auth[i]).error = "NotAuthenticated"
         /\ getScriptApi(auth[i]).client = "none"
         /\ getDriveApi(auth[i]).threw
         /\ getDriveApi(auth[i]).error = "NotAuthenticated"
         /\ getDriveApi(auth[i]).client = "none"

C8_Witness ==
  /\ authEvent["dispatcher"] = "authFailed"
  /\ ~isAuthenticated(auth["dispatcher"])
  /\ lastCall.gate = "failed"

\* C9: setSecureProperty and deleteProperty fail when the result that
\* executeFunction returned carries an error field.
C9_RemoteErrorFailsOperation ==
  ( /\ lastOp.op \in {"setSecureProperty", "deleteProperty"}
    /\ lastOp.exec.error )
  => lastOp.threw

\* C10: after a property operation that created its temporary file, the
\* file is still in the collection if and only if the execute step or the
\* delete step threw; on normal return the collection equals the collection
\* before the operation.
C10_TempFileLeftIffThrew ==
  ( /\ lastOp.op \in {"setSecureProperty", "getSecureProperty", "deleteProperty"}
    /\ lastOp.step # 2 )
  => /\ (\E i \in 1..Len(files) : files[i].name = lastOp.temp)
          <=> lastOp.step \in {3, 4}
     /\ ~lastOp.threw => files = lastOp.pre

====
